---- MODULE Spec2Model ----
(***************************************************************************)
(* Model of the document generation pipeline of AppliWeb-AO:               *)
(*   app/services.py            DocumentService, QuoteGenerationService    *)
(*   app/ollama_client.py       OllamaClient, prompt builders              *)
(*   app/document_processor.py  hashing, text extraction, Word output      *)
(*   app/database.py            Document, GenerationHistory                *)
(*                                                                         *)
(* Text (str) and file names are sequences of string tokens: string        *)
(* concatenation is \o, startswith is IsPrefix.  File contents (bytes) are *)
(* records.  The persisted state is the documents table, the history table *)
(* and the files of the upload and generated folders.                      *)
(***************************************************************************)
EXTENDS Integers, Sequences, FiniteSets, TLC

\* ------------------------------------------------------------------ bounds
MaxDocs  == 2   \* rows of the documents table
MaxHist  == 2   \* rows of the generation_history table
MaxClock == 1   \* seconds of wall-clock time that can pass
MaxLines == 2   \* lines the model backend sends on one streaming response

\* ----------------------------------------------------------------- helpers
None == <<"None">>          \* Python's None, for optional text arguments
NoId == 0                   \* NULL in an integer column (parent_id)

Range(s) == {s[i] : i \in 1..Len(s)}

IsPrefix(p, s) == Len(p) <= Len(s) /\ SubSeq(s, 1, Len(p)) = p

Max(S) == CHOOSE m \in S : \A x \in S : x <= m

Min(S) == CHOOSE m \in S : \A x \in S : m <= x

\* the elements of the finite set of integers S in ascending order
RECURSIVE SortedSeq(_)
SortedSeq(S) == IF S = {} THEN <<>> ELSE <<Min(S)>> \o SortedSeq(S \ {Min(S)})

\* Python truthiness of an optional str argument: None and "" are falsy
Truthy(s) == s # None /\ s # <<>>

\* ------------------------------------------------------------ enumerations
APPEL_OFFRE == "appel_offre"
OFFRE_PRIX  == "offre_prix"
GENERATED   == "generated"
COMPLETED   == "completed"

UPLOAD_FOLDER    == "uploads"
GENERATED_FOLDER == "generated"

\* ------------------------------------------------------- document_processor
\* calculate_file_hash: SHA-256 of the file's bytes (collision free)
calculate_file_hash(bytes) == <<"sha256", bytes>>

\* Path(name).suffix.lower(): the extension token of a file name
Lower(ext) ==
    CASE ext = ".PDF"  -> ".pdf"
      [] ext = ".DOCX" -> ".docx"
      [] OTHER         -> ext

Suffix(name) ==
    IF Len(name) >= 2 /\ name[Len(name)] \in {".pdf", ".PDF", ".docx", ".DOCX", ".doc", ".xyz"}
    THEN Lower(name[Len(name)])
    ELSE ""

\* The bytes python-docx writes for create_word_document(content, title,
\* reference, path): the rendered title, reference line and content, inside
\* a zip archive whose entries carry the time of writing at the zip format's
\* two-second resolution.
create_word_document(content, title, reference, now) ==
    [kind |-> "docx", title |-> title, reference |-> reference,
     body |-> content, ztime |-> now \div 2]

\* Files users upload: a PDF with a reference line, a Word file with text,
\* a Word file without text.
PdfBytes == [kind |-> "raw", fmt |-> ".pdf", text |-> <<"Marche", "\n", "Ref: ", "AO-1">>]

DocxBytes == [kind |-> "raw", fmt |-> ".docx", text |-> <<"Modele">>]

EmptyDocxBytes == [kind |-> "raw", fmt |-> ".docx", text |-> <<>>]

extract_text_from_pdf(bytes) ==
    IF bytes.kind = "raw" /\ bytes.fmt = ".pdf" THEN bytes.text
    ELSE <<"Erreur lors de l'extraction du PDF: ", "e">>

extract_text_from_docx(bytes) ==
    IF bytes.kind = "docx"
    THEN bytes.title \o <<"\n", "Référence: ">> \o bytes.reference \o <<"\n">> \o bytes.body
    ELSE IF bytes.fmt = ".docx" THEN bytes.text
    ELSE <<"Erreur lors de l'extraction du DOCX: ", "e">>

\* extract_text answering an unsupported format with no text at all
extract_text_silent(bytes, extension) ==
    IF extension = ".pdf" THEN extract_text_from_pdf(bytes)
    ELSE IF extension \in {".docx", ".doc"} THEN extract_text_from_docx(bytes)
    ELSE <<>>

extract_text(bytes, extension) ==
    IF extension = ".pdf" THEN extract_text_from_pdf(bytes)
    ELSE IF extension \in {".docx", ".doc"} THEN extract_text_from_docx(bytes)
    ELSE <<"Format de fichier non supporté: ", extension>>

\* extract_key_information: the reference is the token that follows the first
\* reference label, the title is the first non-blank line
KeyReference(text) ==
    LET at == {i \in 1..(Len(text) - 1) : text[i] = "Ref: "}
    IN  IF at = {} THEN None ELSE <<text[Min(at) + 1]>>

RECURSIVE FirstLine(_)
FirstLine(text) ==
    IF text = <<>> THEN <<>>
    ELSE IF Head(text) = "\n" THEN <<>>
    ELSE <<Head(text)>> \o FirstLine(Tail(text))

RECURSIVE KeyTitle(_)
KeyTitle(text) ==
    IF text = <<>> THEN None
    ELSE IF Head(text) = "\n" THEN KeyTitle(Tail(text))
    ELSE FirstLine(text)

extract_key_information(text) ==
    [reference |-> KeyReference(text), title |-> KeyTitle(text)]

\* x or y, for optional text
Or(x, y) == IF Truthy(x) THEN x ELSE y

\* -------------------------------------------------------------- file system
\* files is a function from paths [folder, name] to the bytes stored there
write_file(fs, path, bytes) ==
    [q \in DOMAIN fs \cup {path} |-> IF q = path THEN bytes ELSE fs[q]]

\* os.remove left out: the file stays where it was written
os_remove_skipped(fs, path) == fs

os_remove(fs, path) == [q \in DOMAIN fs \ {path} |-> fs[q]]

\* uuid.uuid4().hex: a token no stored upload and no row uses
uuid4(ds, fs) ==
    LET used == {p.name[2] : p \in {q \in DOMAIN fs : q.folder = UPLOAD_FOLDER}}
                \cup {ds[i].filename[2] : i \in DOMAIN ds}
    IN  ToString(Min({k \in 1..(Cardinality(used) + 1) : ToString(k) \notin used}))

\* datetime.now().strftime(...): the clock's second as text
strftime(now) == ToString(now)

\* ---------------------------------------------------------------- database
\* the id SQLite gives a new row of a table with an INTEGER PRIMARY KEY:
\* one more than the largest id in use
NewId(ds) == IF DOMAIN ds = {} THEN 1 ELSE Max(DOMAIN ds) + 1

\* a lookup by digest that never finds a row
first_by_hash_blind(ds, h) == NoId

\* query(Document).filter_by(file_hash=h).first()
first_by_hash(ds, h) ==
    LET found == {i \in DOMAIN ds : ds[i].file_hash = h}
    IN  IF found = {} THEN NoId ELSE Min(found)

\* get_document: the id itself when a row has it, NoId otherwise
get_document(ds, id) == IF id \in DOMAIN ds THEN id ELSE NoId

\* get_all_templates, in id order
get_all_templates(ds) ==
    SortedSeq({i \in DOMAIN ds : ds[i].document_type = OFFRE_PRIX /\ ds[i].is_template})

\* ----------------------------------------------------------- DocumentService
\* upload_document as an upsert: a row found by digest takes the category,
\* the name and the template flag of the new call
upload_document_updating(ds, fs, file_content, original_filename, document_type, reference, title, is_template, now) ==
    LET file_ext == Suffix(original_filename)
        unique_filename == <<"uuid", uuid4(ds, fs), file_ext>>
        file_path == [folder |-> UPLOAD_FOLDER, name |-> unique_filename]
        fs1 == write_file(fs, file_path, file_content)
        file_hash == calculate_file_hash(fs1[file_path])
        existing == first_by_hash(ds, file_hash)
        extracted_text == extract_text(fs1[file_path], file_ext)
        extract == document_type = APPEL_OFFRE /\ ~Truthy(reference)
        key_info == extract_key_information(extracted_text)
        reference1 == IF extract THEN Or(key_info.reference, reference) ELSE reference
        title1 == IF extract THEN Or(key_info.title, title) ELSE title
        document ==
            [filename |-> unique_filename,
             original_filename |-> original_filename,
             file_path |-> file_path,
             document_type |-> document_type,
             reference |-> Or(reference1, <<"DOC-", strftime(now)>>),
             title |-> Or(title1, original_filename),
             extracted_text |-> extracted_text,
             file_hash |-> file_hash,
             is_template |-> is_template,
             status |-> COMPLETED,
             parent_id |-> NoId]
        id == NewId(ds)
    IN  IF existing # NoId
        THEN [docs |-> [ds EXCEPT ![existing].document_type = document_type,
                                   ![existing].original_filename = original_filename,
                                   ![existing].is_template = is_template],
              files |-> os_remove(fs1, file_path), id |-> existing,
              created |-> FALSE]
        ELSE [docs |-> [i \in DOMAIN ds \cup {id} |-> IF i = id THEN document ELSE ds[i]],
              files |-> fs1, id |-> id, created |-> TRUE]

\* upload_document: the tables and files after the call, and the returned id
upload_document(ds, fs, file_content, original_filename, document_type, reference, title, is_template, now) ==
    LET file_ext == Suffix(original_filename)
        unique_filename == <<"uuid", uuid4(ds, fs), file_ext>>
        file_path == [folder |-> UPLOAD_FOLDER, name |-> unique_filename]
        fs1 == write_file(fs, file_path, file_content)
        file_hash == calculate_file_hash(fs1[file_path])
        existing == first_by_hash(ds, file_hash)
        extracted_text == extract_text(fs1[file_path], file_ext)
        extract == document_type = APPEL_OFFRE /\ ~Truthy(reference)
        key_info == extract_key_information(extracted_text)
        reference1 == IF extract THEN Or(key_info.reference, reference) ELSE reference
        title1 == IF extract THEN Or(key_info.title, title) ELSE title
        document ==
            [filename |-> unique_filename,
             original_filename |-> original_filename,
             file_path |-> file_path,
             document_type |-> document_type,
             reference |-> Or(reference1, <<"DOC-", strftime(now)>>),
             title |-> Or(title1, original_filename),
             extracted_text |-> extracted_text,
             file_hash |-> file_hash,
             is_template |-> is_template,
             status |-> COMPLETED,
             parent_id |-> NoId]
        id == NewId(ds)
    IN  IF existing # NoId
        THEN [docs |-> ds, files |-> os_remove(fs1, file_path), id |-> existing,
              created |-> FALSE]
        ELSE [docs |-> [i \in DOMAIN ds \cup {id} |-> IF i = id THEN document ELSE ds[i]],
              files |-> fs1, id |-> id, created |-> TRUE]

\* delete_document stopped by a backing file that is not there: os.remove
\* called without the os.path.exists test, its error ending the call
delete_document_strict(ds, fs, document_id) ==
    LET document == get_document(ds, document_id)
    IN  IF document = NoId \/ ds[document].file_path \notin DOMAIN fs
        THEN [docs |-> ds, files |-> fs, ok |-> FALSE]
        ELSE [docs |-> [i \in DOMAIN ds \ {document} |-> ds[i]],
              files |-> os_remove(fs, ds[document].file_path),
              ok |-> TRUE]

\* delete_document: the tables and files after the call, and the returned flag
delete_document(ds, fs, document_id) ==
    LET document == get_document(ds, document_id)
    IN  IF document = NoId
        THEN [docs |-> ds, files |-> fs, ok |-> FALSE]
        ELSE [docs |-> [i \in DOMAIN ds \ {document} |-> ds[i]],
              files |-> IF ds[document].file_path \in DOMAIN fs
                        THEN os_remove(fs, ds[document].file_path)
                        ELSE fs,
              ok |-> TRUE]

\* ------------------------------------------------------------- OllamaClient
OLLAMA_BASE_URL == "http://localhost:11434"

\* What the backend does with one non-streaming request
Replies ==
    { [kind |-> "response", status |-> 200, has_response |-> TRUE,  body |-> <<"# Offre\n">>],
      [kind |-> "response", status |-> 200, has_response |-> FALSE, body |-> <<>>],
      [kind |-> "response", status |-> 500, has_response |-> FALSE, body |-> <<"model not found">>],
      [kind |-> "timeout",    status |-> 0, has_response |-> FALSE, body |-> <<>>],
      [kind |-> "connection", status |-> 0, has_response |-> FALSE, body |-> <<>>] }

\* generate with the connection failure swallowed: it returns '' instead of
\* raising
generate_swallowing(reply) ==
    CASE reply.kind = "timeout" ->
           [raised |-> TRUE, value |-> <<"Timeout: La génération a pris trop de temps">>]
      [] reply.kind = "connection" -> [raised |-> FALSE, value |-> <<>>]
      [] reply.kind = "response" /\ reply.status = 200 ->
           [raised |-> FALSE, value |-> IF reply.has_response THEN reply.body ELSE <<>>]
      [] OTHER ->
           [raised |-> TRUE,
            value |-> <<"Erreur Ollama: ", ToString(reply.status), " - ">> \o reply.body]

\* OllamaClient.generate: the text returned, or the message of the Exception raised
generate(reply) ==
    CASE reply.kind = "timeout" ->
           [raised |-> TRUE, value |-> <<"Timeout: La génération a pris trop de temps">>]
      [] reply.kind = "connection" ->
           [raised |-> TRUE,
            value |-> <<"Impossible de se connecter à Ollama sur ", OLLAMA_BASE_URL>>]
      [] reply.kind = "response" /\ reply.status = 200 ->
           [raised |-> FALSE, value |-> IF reply.has_response THEN reply.body ELSE <<>>]
      [] OTHER ->
           [raised |-> TRUE,
            value |-> <<"Erreur Ollama: ", ToString(reply.status), " - ">> \o reply.body]

\* What arrives on a streaming response: a line (empty, or a JSON payload
\* with or without a 'response' fragment and with done true or false), the
\* end of the stream, or a failure of the connection or of json.loads.  The
\* n-th fragment the backend sends is Fragment(n).
Fragment(n) == IF n = 1 THEN <<"# Offre\n">> ELSE <<"Contenu.\n", ToString(n)>>

Item(kind, has_response, response, done) ==
    [kind |-> kind, has_response |-> has_response, response |-> response, done |-> done]

LineItem(k, n) ==
    CASE k = "empty"         -> Item("empty", FALSE, <<>>, FALSE)
      [] k = "fragment"      -> Item("payload", TRUE, Fragment(n), FALSE)
      [] k = "fragment_done" -> Item("payload", TRUE, Fragment(n), TRUE)
      [] k = "no_fragment"   -> Item("payload", FALSE, <<>>, FALSE)
      [] OTHER               -> Item("payload", FALSE, <<>>, TRUE)

ErrorChunk == <<"\nErreur lors de la génération: ", "e">>

\* generate_stream with a bare except that ends the generator: a failure
\* yields nothing
generate_stream_silent(item) ==
    CASE item.kind \in {"exception", "eof"} -> [yield |-> <<>>, at |-> "end"]
      [] item.kind = "empty" -> [yield |-> <<>>, at |-> "reading"]
      [] item.has_response ->
           [yield |-> <<item.response>>, at |-> IF item.done THEN "last" ELSE "yielded"]
      [] OTHER -> [yield |-> <<>>, at |-> IF item.done THEN "end" ELSE "reading"]

\* One turn of generate_stream's loop on the item read: the chunk it yields
\* (if any) and where the generator stands afterwards:
\*   "reading"  in the for loop, about to read the next line
\*   "yielded"  suspended at the yield of a fragment, more lines to read
\*   "last"     suspended at the yield of the fragment of a done payload
\*   "caught"   suspended at the yield of the error chunk
\*   "end"      the generator has returned
generate_stream(item) ==
    CASE item.kind = "exception" -> [yield |-> <<ErrorChunk>>, at |-> "caught"]
      [] item.kind = "eof" -> [yield |-> <<>>, at |-> "end"]
      [] item.kind = "empty" -> [yield |-> <<>>, at |-> "reading"]
      [] item.has_response ->
           [yield |-> <<item.response>>, at |-> IF item.done THEN "last" ELSE "yielded"]
      [] OTHER -> [yield |-> <<>>, at |-> IF item.done THEN "end" ELSE "reading"]

\* A whole streaming response: the lines the backend sends and how the
\* response ends once they are read ("eof" or "exception")
Script(lines, end) == [lines |-> lines, end |-> end]

\* generate_stream consumed to its end on a response: the chunks yielded, the
\* fragments the backend had delivered by then, whether a failure occurred
\* and whether a done payload ended it
RECURSIVE run_stream(_, _, _, _)
run_stream(script, i, chunks, received) ==
    LET item == IF i <= Len(script.lines)
                THEN LineItem(script.lines[i], Len(received) + 1)
                ELSE Item(script.end, FALSE, <<>>, FALSE)
        step == generate_stream(item)
        received1 == IF item.has_response THEN Append(received, item.response) ELSE received
    IN  IF step.at \in {"reading", "yielded"}
        THEN run_stream(script, i + 1, chunks \o step.yield, received1)
        ELSE [chunks |-> chunks \o step.yield, received |-> received1,
              failed |-> item.kind = "exception", done |-> item.done]

\* ---------------------------------------------------- QuoteGenerationService
\* json.dumps of a list of ids
RECURSIVE JsonItems(_)
JsonItems(ids) ==
    IF ids = <<>> THEN <<>>
    ELSE IF Len(ids) = 1 THEN <<ToString(ids[1])>>
    ELSE <<ToString(ids[1]), ", ">> \o JsonItems(Tail(ids))

json_dumps(ids) == <<"[">> \o JsonItems(ids) \o <<"]">>

\* the template_ids argument: absent (None) or a list of ids
NoTemplateIds == [given |-> FALSE, ids |-> <<>>]

\* the ids, in order, of the documents whose text goes into the prompt
RECURSIVE WithText(_, _)
WithText(ds, ids) ==
    IF ids = <<>> THEN <<>>
    ELSE (IF Head(ids) \in DOMAIN ds /\ ds[Head(ids)].extracted_text # <<>>
          THEN <<Head(ids)>> ELSE <<>>) \o WithText(ds, Tail(ids))

templates_embedded(ds, template_ids) ==
    IF template_ids.given /\ template_ids.ids # <<>>
    THEN WithText(ds, template_ids.ids)
    ELSE WithText(ds, get_all_templates(ds))

templates_used(template_ids) ==
    json_dumps(IF template_ids.given /\ template_ids.ids # <<>> THEN template_ids.ids ELSE <<>>)

\* save_generation keeping only the newest history row
save_generation_rewriting(ds, fs, hist, tender_id, tender, template_ids, embedded, content, output_filename, now) ==
    LET name == IF Truthy(output_filename) THEN output_filename
                ELSE <<"Offre_">> \o tender.reference \o <<"_", strftime(now), ".docx">>
        output_path == [folder |-> GENERATED_FOLDER, name |-> name]
        bytes == create_word_document(content, <<"Offre de Prix - ">> \o tender.reference,
                                      tender.reference, now)
        fs1 == write_file(fs, output_path, bytes)
        up == upload_document(ds, fs1, fs1[output_path], name, GENERATED,
                              <<"OFF-">> \o tender.reference,
                              <<"Offre générée pour ">> \o tender.reference, FALSE, now)
        row == [source_document_id |-> tender_id,
                generated_document_id |-> up.id,
                templates_used |-> templates_used(template_ids),
                embedded |-> embedded]
    IN  [docs |-> [up.docs EXCEPT ![up.id].parent_id = tender_id],
         files |-> up.files,
         history |-> <<row>>,
         id |-> up.id,
         created |-> up.created]

\* save_generation without the parent_id update
save_generation_unparented(ds, fs, hist, tender_id, tender, template_ids, embedded, content, output_filename, now) ==
    LET name == IF Truthy(output_filename) THEN output_filename
                ELSE <<"Offre_">> \o tender.reference \o <<"_", strftime(now), ".docx">>
        output_path == [folder |-> GENERATED_FOLDER, name |-> name]
        bytes == create_word_document(content, <<"Offre de Prix - ">> \o tender.reference,
                                      tender.reference, now)
        fs1 == write_file(fs, output_path, bytes)
        up == upload_document(ds, fs1, fs1[output_path], name, GENERATED,
                              <<"OFF-">> \o tender.reference,
                              <<"Offre générée pour ">> \o tender.reference, FALSE, now)
        row == [source_document_id |-> tender_id,
                generated_document_id |-> up.id,
                templates_used |-> templates_used(template_ids),
                embedded |-> embedded]
    IN  [docs |-> up.docs,
         files |-> up.files,
         history |-> Append(hist, row),
         id |-> up.id,
         created |-> up.created]

\* The part of generate_quote and generate_quote_stream after the model has
\* answered: write the Word file, register it, set its parent, write the
\* history row.  tender is the Document row read at the start of the call;
\* embedded records which templates went into the prompt.
save_generation(ds, fs, hist, tender_id, tender, template_ids, embedded, content, output_filename, now) ==
    LET name == IF Truthy(output_filename) THEN output_filename
                ELSE <<"Offre_">> \o tender.reference \o <<"_", strftime(now), ".docx">>
        output_path == [folder |-> GENERATED_FOLDER, name |-> name]
        bytes == create_word_document(content, <<"Offre de Prix - ">> \o tender.reference,
                                      tender.reference, now)
        fs1 == write_file(fs, output_path, bytes)
        up == upload_document(ds, fs1, fs1[output_path], name, GENERATED,
                              <<"OFF-">> \o tender.reference,
                              <<"Offre générée pour ">> \o tender.reference, FALSE, now)
        row == [source_document_id |-> tender_id,
                generated_document_id |-> up.id,
                templates_used |-> templates_used(template_ids),
                embedded |-> embedded]
    IN  [docs |-> [up.docs EXCEPT ![up.id].parent_id = tender_id],
         files |-> up.files,
         history |-> Append(hist, row),
         id |-> up.id,
         created |-> up.created]

\* ------------------------------------------------------------------- state
VARIABLES
    docs,      \* documents table: id -> Document row
    files,     \* files of the upload and generated folders: path -> bytes
    history,   \* generation_history table, in insertion order
    clock,     \* wall-clock time in seconds
    last,      \* the call that finished last: what its caller got
    applied,   \* a function of the program applied to an argument, and its result
    calls      \* the service calls in progress in concurrent requests

vars == <<docs, files, history, clock, last, applied, calls>>

\* the concurrent requests
Procs == {1, 2}

NoCall == [fn |-> "", done |-> FALSE]


NoBytes == [kind |-> "none"]

\* the locals of a call of upload_document, generate_quote or
\* generate_quote_stream, before the call starts
Idle ==
    [pc |-> "idle", fn |-> "", content |-> NoBytes, name |-> <<>>, type |-> "",
     reference |-> None, title |-> None, is_template |-> FALSE,
     file_path |-> [folder |-> "", name |-> <<>>], file_hash |-> <<>>,
     existing |-> NoId, id |-> NoId, created |-> FALSE, err |-> <<>>, sent |-> FALSE,
     tender_id |-> NoId, tender_reference |-> <<>>, embedded |-> <<>>,
     generated_content |-> <<>>, events |-> <<>>, output_filename |-> <<>>,
     output_path |-> [folder |-> "", name |-> <<>>], output_bytes |-> NoBytes,
     history_id |-> 0, answered |-> FALSE, overlapped |-> FALSE,
     script |-> [lines |-> <<>>, end |-> "eof"], read |-> 0, received |-> <<>>,
     chunks |-> <<>>, at |-> "start", pulls |-> 0]

NoReply == [kind |-> "none", status |-> 0, has_response |-> FALSE, body |-> <<>>]

NoStream == [chunks |-> <<>>, events |-> <<>>, received |-> <<>>, failed |-> FALSE,
             done |-> FALSE]

\* What a call left for its caller, and what the call was given:
\*   op       the operation
\*   content  the bytes passed to upload_document
\*   tender   the tender id passed to a generation that completed
\*   ok, id   the call returned, with this document id
\*   created  the call added a row to the documents table
\*   err      the exception raised when not ok
\*   sent     a request went to the backend
\*   reply    what the backend did with a non-streaming request
\*   unknown  one of the ids passed in named no stored document
\*   stream   what a streaming call yielded, and what the backend sent
NoOutcome ==
    [op |-> "", content |-> NoBytes, tender |-> NoId, ok |-> TRUE, id |-> NoId,
     created |-> FALSE, err |-> <<>>, sent |-> FALSE, reply |-> NoReply,
     unknown |-> FALSE, stream |-> NoStream]

Raised(op, err, sent, reply, unknown) ==
    [NoOutcome EXCEPT !.op = op, !.ok = FALSE, !.err = err, !.sent = sent,
                      !.reply = reply, !.unknown = unknown]

Init ==
    /\ docs = << >>
    /\ files = << >>
    /\ history = << >>
    /\ clock = 0
    /\ last = NoOutcome
    /\ applied = NoCall
    /\ calls = [p \in Procs |-> Idle]

\* ----------------------------------------------------------------- inputs
DocIds == 1..MaxDocs

Request(content, name, type, reference, is_template) ==
    [content |-> content, name |-> name, type |-> type, reference |-> reference,
     is_template |-> is_template]

\* the uploads users make: a tender, the same file under another name and
\* with a reference typed in, templates with and without text, and a copy
\* of a generated file
TenderRequest == Request(PdfBytes, <<"ao", ".pdf">>, APPEL_OFFRE, None, FALSE)

TemplateRequest == Request(DocxBytes, <<"modele", ".DOCX">>, OFFRE_PRIX, <<"M-1">>, TRUE)

EmptyTemplateRequest == Request(EmptyDocxBytes, <<"vide", ".docx">>, OFFRE_PRIX, None, TRUE)

RenamedRequest == Request(PdfBytes, <<"copie", ".PDF">>, APPEL_OFFRE, <<"AO-2024-01">>, FALSE)

\* a generated offer, downloaded and sent back as a past offer
Copies ==
    { Request(files[p], <<"copie", ".docx">>, OFFRE_PRIX, <<"M-2">>, FALSE) :
        p \in {q \in DOMAIN files : q.folder = GENERATED_FOLDER} }

Requests == {TenderRequest, TemplateRequest, EmptyTemplateRequest, RenamedRequest}

TemplateIdArgs ==
    {NoTemplateIds}
    \cup {[given |-> TRUE, ids |-> <<>>]}
    \cup {[given |-> TRUE, ids |-> <<a>>] : a \in DocIds}
    \cup {[given |-> TRUE, ids |-> <<a, b>>] : a \in DocIds, b \in DocIds}

\* the line sequences of at most n lines on which generate_stream is still
\* reading after the last line
RECURSIVE OpenLines(_)
OpenLines(n) ==
    IF n = 0 THEN {<<>>}
    ELSE OpenLines(n - 1)
         \cup {Append(l, k) : l \in {m \in OpenLines(n - 1) : Len(m) = n - 1},
                              k \in {"empty", "fragment", "no_fragment"}}

\* the responses of at most MaxLines lines: those that end with a done
\* payload, and those that end with the end of the stream or a failure
Scripts ==
    {Script(Append(l, k), "eof") : l \in OpenLines(MaxLines - 1), k \in {"fragment_done", "done"}}
    \cup {Script(l, e) : l \in OpenLines(MaxLines), e \in {"eof", "exception"}}

UnknownIds(ds, tender_id, template_ids) ==
    \E i \in {tender_id} \cup Range(template_ids.ids) : i \notin DOMAIN ds

NotFound(what, id) == <<"ValueError", what, ToString(id), " non trouvé">>

\* an event generate_quote_stream yields: (chunk, document, metadata)
Event(chunk, doc, status) == [chunk |-> chunk, doc |-> doc, status |-> status]

Events(chunks, status) == [i \in 1..Len(chunks) |-> Event(chunks[i], NoId, status)]

RECURSIVE Concat(_)
Concat(chunks) == IF chunks = <<>> THEN <<>> ELSE Head(chunks) \o Concat(Tail(chunks))

\* ---------------------------------------------------------------- actions
\* time passes
Tick ==
    /\ clock < MaxClock
    /\ clock' = clock + 1
    /\ UNCHANGED <<docs, files, history, last, applied, calls>>

\* DocumentService.upload_document, called by a front end
Upload(requests) ==
    \E r \in requests :
        LET up == upload_document(docs, files, r.content, r.name, r.type, r.reference,
                                  None, r.is_template, clock)
        IN  /\ up.id <= MaxDocs
            /\ docs' = up.docs
            /\ files' = up.files
            /\ last' = [NoOutcome EXCEPT !.op = "upload_document", !.content = r.content,
                                         !.id = up.id, !.created = up.created]
            /\ UNCHANGED <<history, clock, applied, calls>>

\* DocumentService.delete_document
Delete ==
    \E id \in DocIds :
        LET del == delete_document(docs, files, id)
        IN  /\ docs' = del.docs
            /\ files' = del.files
            /\ last' = [NoOutcome EXCEPT !.op = "delete_document", !.ok = del.ok,
                                         !.unknown = ~del.ok]
            /\ UNCHANGED <<history, clock, applied, calls>>

\* QuoteGenerationService.analyze_tender
AnalyzeTender(replies) ==
    \E id \in DocIds, reply \in replies :
        LET document == get_document(docs, id)
            analysis == generate(reply)
        IN  /\ last' = IF document = NoId
                       THEN Raised("analyze_tender", NotFound("Document ", id), FALSE,
                                   NoReply, TRUE)
                       ELSE IF analysis.raised
                       THEN Raised("analyze_tender", <<"Exception">> \o analysis.value, TRUE,
                                   reply, FALSE)
                       ELSE [NoOutcome EXCEPT !.op = "analyze_tender", !.id = id,
                                              !.sent = TRUE, !.reply = reply]
            /\ UNCHANGED <<docs, files, history, clock, applied, calls>>

\* QuoteGenerationService.analyze_tender_stream, consumed to its end
AnalyzeTenderStream(scripts) ==
    \E id \in DocIds, script \in scripts :
        LET document == get_document(docs, id)
            run == run_stream(script, 1, <<>>, <<>>)
        IN  /\ last' = IF document = NoId
                       THEN Raised("analyze_tender_stream", NotFound("Document ", id), FALSE,
                                   NoReply, TRUE)
                       ELSE [NoOutcome EXCEPT
                               !.op = "analyze_tender_stream", !.id = id, !.sent = TRUE,
                               !.stream = [chunks |-> run.chunks,
                                           events |-> Events(run.chunks, "chunk"),
                                           received |-> run.received,
                                           failed |-> run.failed, done |-> run.done]]
            /\ UNCHANGED <<docs, files, history, clock, applied, calls>>

\* QuoteGenerationService.generate_quote; rows caps the history table
GenerateQuote(template_args, replies, rows) ==
    \E id \in DocIds, template_ids \in template_args, reply \in replies :
        LET tender == get_document(docs, id)
            embedded == templates_embedded(docs, template_ids)
            generated == generate(reply)
            unknown == UnknownIds(docs, id, template_ids)
            saved == save_generation(docs, files, history, id, docs[tender], template_ids,
                                     embedded, generated.value, None, clock)
        IN  /\ UNCHANGED <<clock, applied, calls>>
            /\ IF tender = NoId
               THEN /\ last' = Raised("generate_quote", NotFound("Appel d'offre ", id), FALSE,
                                      NoReply, unknown)
                    /\ UNCHANGED <<docs, files, history>>
               ELSE IF generated.raised
               THEN /\ last' = Raised("generate_quote", <<"Exception">> \o generated.value,
                                      TRUE, reply, unknown)
                    /\ UNCHANGED <<docs, files, history>>
               ELSE /\ Len(history) < rows
                    /\ saved.id <= MaxDocs
                    /\ docs' = saved.docs
                    /\ files' = saved.files
                    /\ history' = saved.history
                    /\ last' = [NoOutcome EXCEPT
                                  !.op = "generate_quote", !.tender = id, !.id = saved.id,
                                  !.created = saved.created, !.sent = TRUE, !.reply = reply,
                                  !.unknown = unknown]

\* QuoteGenerationService.generate_quote_stream, consumed to its end
GenerateQuoteStream(template_args, scripts, rows) ==
    \E id \in DocIds, template_ids \in template_args, script \in scripts :
        LET tender == get_document(docs, id)
            embedded == templates_embedded(docs, template_ids)
            unknown == UnknownIds(docs, id, template_ids)
            run == run_stream(script, 1, <<>>, <<>>)
            full_content == Concat(run.chunks)
            saved == save_generation(docs, files, history, id, docs[tender], template_ids,
                                     embedded, full_content, None, clock)
            events == Append(Events(run.chunks, "generating"),
                             Event(<<>>, saved.id, "completed"))
        IN  /\ UNCHANGED <<clock, applied, calls>>
            /\ IF tender = NoId
               THEN /\ last' = Raised("generate_quote_stream", NotFound("Appel d'offre ", id),
                                      FALSE, NoReply, unknown)
                    /\ UNCHANGED <<docs, files, history>>
               ELSE /\ Len(history) < rows
                    /\ saved.id <= MaxDocs
                    /\ docs' = saved.docs
                    /\ files' = saved.files
                    /\ history' = saved.history
                    /\ last' = [NoOutcome EXCEPT
                                  !.op = "generate_quote_stream", !.tender = id,
                                  !.id = saved.id, !.created = saved.created, !.sent = TRUE,
                                  !.unknown = unknown,
                                  !.stream = [chunks |-> run.chunks, events |-> events,
                                              received |-> run.received,
                                              failed |-> run.failed, done |-> run.done]]

\* ---------------------------------------------------------- specifications
OkReply == CHOOSE r \in Replies : r.status = 200 /\ r.has_response

TimeoutReply == CHOOSE r \in Replies : r.kind = "timeout"

EmptyReply == CHOOSE r \in Replies : r.status = 200 /\ ~r.has_response

\* Every operation, on a few inputs each
Next ==
    \/ Tick
    \/ Upload({TenderRequest, TemplateRequest} \cup Copies)
    \/ Delete
    \/ AnalyzeTender({OkReply})
    \/ AnalyzeTenderStream({Script(<<"fragment">>, "eof")})
    \/ GenerateQuote({NoTemplateIds}, {OkReply, TimeoutReply}, MaxHist)
    \/ GenerateQuoteStream({NoTemplateIds},
                           {Script(<<"fragment_done">>, "eof"), Script(<<>>, "exception")},
                           MaxHist)

Spec == Init /\ [][Next]_vars

\* The stored state under every operation that reads or writes it, within
\* one second of wall-clock time
NextStore ==
    \/ Upload({TenderRequest} \cup Copies)
    \/ Delete
    \/ AnalyzeTender({OkReply})
    \/ AnalyzeTenderStream({Script(<<"fragment">>, "eof")})
    \/ GenerateQuote({NoTemplateIds}, {OkReply, TimeoutReply}, MaxHist)
    \/ GenerateQuoteStream({NoTemplateIds}, {Script(<<"fragment_done">>, "eof")}, MaxHist)

SpecStore == Init /\ [][NextStore]_vars

\* Ingestion: uploads and deletions
NextIngest ==
    \/ Tick
    \/ Upload(Requests \cup Copies)
    \/ Delete

SpecIngest == Init /\ [][NextIngest]_vars

\* Streaming calls on every behaviour of the backend's response, up to the
\* first generation that completes
NextStream ==
    \/ Upload({TenderRequest})
    \/ AnalyzeTenderStream(Scripts)
    \/ GenerateQuoteStream({NoTemplateIds}, Scripts, 1)

SpecStream == Init /\ [][NextStream]_vars

\* Streaming generations one after the other, between deletions and uploads
\* of copies of what was generated
NextRegen ==
    \/ Upload({TenderRequest} \cup Copies)
    \/ Delete
    \/ GenerateQuoteStream({NoTemplateIds}, Scripts, MaxHist)

SpecRegen == Init /\ [][NextRegen]_vars

\* Generation and analysis on every reply of the backend and every choice of
\* templates, over uploaded tenders and templates, up to the first
\* generation that completes
NextCall ==
    \/ Upload({TenderRequest, TemplateRequest, EmptyTemplateRequest})
    \/ AnalyzeTender(Replies)
    \/ AnalyzeTenderStream({Script(<<"fragment">>, "eof")})
    \/ GenerateQuote(TemplateIdArgs, Replies, 1)
    \/ GenerateQuoteStream(TemplateIdArgs,
                           {Script(<<"fragment_done">>, "eof"), Script(<<>>, "exception")}, 1)

SpecCall == Init /\ [][NextCall]_vars

\* --------------------------------------------- document_processor: the parser
\* Here a str is a sequence of characters, each a one-character string.
MaxParseLines == 3   \* lines of the generated text given to the parser

Whitespace == {" ", "\t"}

DigitChars == {"1", "2"}

startswith(line, prefix) == IsPrefix(prefix, line)

\* line[n:]
From(line, n) == SubSeq(line, n + 1, Len(line))

RECURSIVE lstrip(_)
lstrip(line) ==
    IF line # <<>> /\ Head(line) \in Whitespace THEN lstrip(Tail(line)) ELSE line

RECURSIVE rstrip(_)
rstrip(line) ==
    IF line # <<>> /\ line[Len(line)] \in Whitespace
    THEN rstrip(SubSeq(line, 1, Len(line) - 1))
    ELSE line

\* str.strip()
strip(line) == rstrip(lstrip(line))

\* the number of digits line starts with: what \d+ takes
RECURSIVE LeadingDigits(_)
LeadingDigits(line) ==
    IF line # <<>> /\ Head(line) \in DigitChars THEN 1 + LeadingDigits(Tail(line)) ELSE 0

\* re.match(r'^\d+\.\s', line)
re_match(line) ==
    LET k == LeadingDigits(line)
    IN  k >= 1 /\ Len(line) >= k + 2 /\ line[k + 1] = "." /\ line[k + 2] \in Whitespace

\* re.sub(r'^\d+\.\s', '', line)
re_sub(line) == IF re_match(line) THEN From(line, LeadingDigits(line) + 2) ELSE line

\* content.split('\n')
RECURSIVE split(_, _)
split(content, current) ==
    IF content = <<>> THEN <<current>>
    ELSE IF Head(content) = "\n" THEN <<current>> \o split(Tail(content), <<>>)
    ELSE split(Tail(content), Append(current, Head(content)))

Heading(text, level) == [type |-> "heading", text |-> text, level |-> level]

Paragraph(text) == [type |-> "paragraph", text |-> text]

ListBlock(items) == [type |-> "list", items |-> items]

\* a flush that clears the accumulator without emitting it
Flush_dropping(sections, current_list) == sections

\* sections with the pending list appended, if there is one
Flush(sections, current_list) ==
    IF current_list # <<>> THEN Append(sections, ListBlock(current_list)) ELSE sections

\* the for loop of parse_generated_content and the flush that follows it
RECURSIVE parse_lines(_, _, _)
parse_lines(lines, sections, current_list) ==
    IF lines = <<>> THEN Flush(sections, current_list)
    ELSE LET line == strip(Head(lines))
             rest == Tail(lines)
         IN  IF line = <<>> THEN parse_lines(rest, Flush(sections, current_list), <<>>)
             ELSE IF startswith(line, <<"#", " ">>)
             THEN parse_lines(rest, Append(Flush(sections, current_list),
                                           Heading(From(line, 2), 1)), <<>>)
             ELSE IF startswith(line, <<"#", "#", " ">>)
             THEN parse_lines(rest, Append(Flush(sections, current_list),
                                           Heading(From(line, 3), 2)), <<>>)
             ELSE IF startswith(line, <<"#", "#", "#", " ">>)
             THEN parse_lines(rest, Append(Flush(sections, current_list),
                                           Heading(From(line, 4), 3)), <<>>)
             ELSE IF startswith(line, <<"-", " ">>) \/ startswith(line, <<"*", " ">>)
             THEN parse_lines(rest, sections, Append(current_list, From(line, 2)))
             ELSE IF re_match(line)
             THEN parse_lines(rest, sections, Append(current_list, re_sub(line)))
             ELSE parse_lines(rest, Append(Flush(sections, current_list), Paragraph(line)),
                              <<>>)

parse_generated_content(content) == parse_lines(split(content, <<>>), <<>>, <<>>)

\* the lines a generated text is made of
SampleLines ==
    { <<>>, <<" ">>,
      <<"#", " ", "T">>, <<"#", "#", " ", "T">>, <<"#", "#", "#", " ", "T">>,
      <<"#", "#", "#", "#", " ", "T">>,
      <<"-", " ", "a">>, <<"*", " ", "b">>, <<" ", "-", " ", "c">>, <<"-", " ">>,
      <<"1", ".", " ", "d">>, <<"1", "2", ".", " ", "e">>, <<"1", ".", " ">>,
      <<"t">>, <<"t", " ">>, <<"1", ".", "5">> }

RECURSIVE LineSeqs(_)
LineSeqs(n) ==
    IF n = 0 THEN {<<>>}
    ELSE LineSeqs(n - 1)
         \cup {Append(ls, l) : ls \in {m \in LineSeqs(n - 1) : Len(m) = n - 1},
                               l \in SampleLines}

\* '\n'.join(lines)
RECURSIVE join(_)
join(lines) ==
    IF lines = <<>> THEN <<>>
    ELSE IF Len(lines) = 1 THEN lines[1]
    ELSE lines[1] \o <<"\n">> \o join(Tail(lines))

Contents == {join(ls) : ls \in LineSeqs(MaxParseLines)}

InitParse ==
    /\ docs = << >>
    /\ files = << >>
    /\ history = << >>
    /\ clock = 0
    /\ last = NoOutcome
    /\ calls = [p \in Procs |-> Idle]
    /\ applied \in {[fn |-> "parse_generated_content", done |-> FALSE, content |-> c,
                     sections |-> <<>>] : c \in Contents}

Parse ==
    /\ applied.fn = "parse_generated_content"
    /\ ~applied.done
    /\ applied' = [applied EXCEPT !.done = TRUE,
                                  !.sections = parse_generated_content(applied.content)]
    /\ UNCHANGED <<docs, files, history, clock, last, calls>>

\* parse_generated_content on every text of at most MaxParseLines lines
SpecParse == InitParse /\ [][Parse]_vars

\* ------------------------------------------- ollama_client: prompt builders
\* Here a str is a sequence of tokens, and a marker is one token.
MaxTemplates == 2   \* template texts given to the prompt builder

MODELES == "MODÈLES"

CONTEXTE == "CONTEXTE SUPPLÉMENTAIRE"

\* the loop over enumerate(templates_content, 1), from the i-th template on
RECURSIVE template_blocks(_, _)
template_blocks(templates_content, i) ==
    IF i > Len(templates_content) THEN <<>>
    ELSE <<"=== Modèle ", ToString(i), " ===\n">> \o templates_content[i] \o <<"\n\n">>
         \o template_blocks(templates_content, i + 1)

\* a templates section whose header is written whatever the list holds
templates_text_unguarded(templates_content) ==
    <<"\n\n---\n", MODELES, " DE RÉDACTION DE RÉFÉRENCE:\n\n">>
    \o template_blocks(templates_content, 1)

templates_text(templates_content) ==
    IF templates_content # <<>>
    THEN <<"\n\n---\n", MODELES, " DE RÉDACTION DE RÉFÉRENCE:\n\n">>
         \o template_blocks(templates_content, 1)
    ELSE <<>>

\* create_quote_generation_prompt: the user prompt (the system prompt is a
\* constant text)
create_quote_generation_prompt(tender_content, templates_content, additional_context) ==
    <<"APPEL D'OFFRE À ANALYSER:\n\n">> \o tender_content \o <<"\n\n">>
    \o templates_text(templates_content) \o <<"\n\n">>
    \o (IF additional_context # <<>> THEN <<CONTEXTE, ": ">> \o additional_context ELSE <<>>)
    \o <<"\n\nGénère maintenant une offre de prix complète et professionnelle en réponse à cet appel d'offre.\nL'offre doit être structurée, détaillée et adaptée aux exigences spécifiques mentionnées.">>

\* the texts of tenders, templates and contexts: with and without the words
\* the section headers are made of
PromptTexts ==
    { <<"Marche">>, <<"Nos ", MODELES>>, <<CONTEXTE>>, <<"Marche", "\n", "Lot 1">> }

RECURSIVE TemplateLists(_)
TemplateLists(n) ==
    IF n = 0 THEN {<<>>}
    ELSE TemplateLists(n - 1)
         \cup {Append(ts, t) : ts \in {m \in TemplateLists(n - 1) : Len(m) = n - 1},
                               t \in PromptTexts}

InitPrompt ==
    /\ docs = << >>
    /\ files = << >>
    /\ history = << >>
    /\ clock = 0
    /\ last = NoOutcome
    /\ calls = [p \in Procs |-> Idle]
    /\ applied \in {[fn |-> "create_quote_generation_prompt", done |-> FALSE,
                     tender_content |-> t, templates_content |-> ts,
                     additional_context |-> c, user_prompt |-> <<>>] :
                       t \in PromptTexts, ts \in TemplateLists(MaxTemplates),
                       c \in PromptTexts \cup {<<>>}}

BuildPrompt ==
    /\ applied.fn = "create_quote_generation_prompt"
    /\ ~applied.done
    /\ applied' = [applied EXCEPT
                     !.done = TRUE,
                     !.user_prompt = create_quote_generation_prompt(
                                        applied.tender_content, applied.templates_content,
                                        applied.additional_context)]
    /\ UNCHANGED <<docs, files, history, clock, last, calls>>

\* create_quote_generation_prompt on every choice of texts
SpecPrompt == InitPrompt /\ [][BuildPrompt]_vars

\* ------------------------------------------- uploads that cannot be read
\* a text file, and bytes that neither pdfplumber, PyPDF2 nor python-docx can
\* open
TextBytes == [kind |-> "raw", fmt |-> ".xyz", text |-> <<"Notes">>]

BrokenBytes == [kind |-> "raw", fmt |-> "", text |-> <<>>]

UnsupportedRequest == Request(TextBytes, <<"notes", ".xyz">>, APPEL_OFFRE, None, FALSE)

BrokenPdfRequest == Request(BrokenBytes, <<"casse", ".pdf">>, APPEL_OFFRE, None, FALSE)

\* a PDF sent under a Word name, as a template
BrokenDocRequest == Request(PdfBytes, <<"modele", ".doc">>, OFFRE_PRIX, None, TRUE)

UnreadableRequests == {UnsupportedRequest, BrokenPdfRequest, BrokenDocRequest}

\* Ingestion of files whose text cannot be extracted
NextExtract ==
    \/ Tick
    \/ Upload(UnreadableRequests \cup {TemplateRequest})
    \/ Delete

SpecExtract == Init /\ [][NextExtract]_vars

\* ---------------------------------------- ollama_client: probes of the backend
MaxModels == 2   \* entries of the model list the backend answers with

\* an entry of the 'models' list: an object with or without a 'name'
ModelEntries == {[has_name |-> TRUE, name |-> "mistral"], [has_name |-> TRUE, name |-> "llama"],
                 [has_name |-> FALSE, name |-> ""]}

RECURSIVE EntryLists(_)
EntryLists(n) ==
    IF n = 0 THEN {<<>>}
    ELSE EntryLists(n - 1)
         \cup {Append(es, e) : es \in {m \in EntryLists(n - 1) : Len(m) = n - 1},
                               e \in ModelEntries}

\* the body of an answer to GET /api/tags: not JSON at all, a JSON array, an
\* object without 'models', an object whose 'models' is null, or an object
\* with a list of entries
TagBodies ==
    {[shape |-> sh, models |-> <<>>] : sh \in {"not_json", "array", "no_models", "null_models"}}
    \cup {[shape |-> "models", models |-> es] : es \in EntryLists(MaxModels)}

\* what requests.get does: it raises (timeout, connection refused) or returns
\* a response
Probes ==
    {[kind |-> k, status |-> 0, body |-> [shape |-> "not_json", models |-> <<>>]] :
        k \in {"timeout", "connection"}}
    \cup {[kind |-> "response", status |-> 200, body |-> b] : b \in TagBodies}
    \cup {[kind |-> "response", status |-> st, body |-> b] :
            st \in {404, 500},
            b \in {[shape |-> "not_json", models |-> <<>>],
                   [shape |-> "models", models |-> <<[has_name |-> TRUE, name |-> "mistral"]>>]}}

Returned(value) == [raised |-> FALSE, value |-> value]

Raises == [raised |-> TRUE, value |-> <<>>]

\* check_connection that takes any response for a sign of life
check_connection_any(probe) == Returned(probe.kind = "response")

\* check_connection: the try block, then the except clause
check_connection(probe) ==
    LET try == IF probe.kind # "response" THEN Raises ELSE Returned(probe.status = 200)
    IN  IF try.raised THEN Returned(FALSE) ELSE try

\* [model['name'] for model in data.get('models', [])] on a decoded body
names_of(body) ==
    CASE body.shape \in {"not_json", "array", "null_models"} -> Raises
      [] body.shape = "no_models" -> Returned(<<>>)
      [] OTHER ->
           IF \E i \in 1..Len(body.models) : ~body.models[i].has_name
           THEN Raises
           ELSE Returned([i \in 1..Len(body.models) |-> body.models[i].name])

\* list_models: the try block, then the except clause
list_models(probe) ==
    LET try == IF probe.kind # "response" THEN Raises
               ELSE IF probe.status = 200 THEN names_of(probe.body)
               ELSE Returned(<<>>)
    IN  IF try.raised THEN Returned(<<>>) ELSE try

CheckConnection ==
    \E probe \in Probes :
        /\ applied' = [fn |-> "check_connection", done |-> TRUE, probe |-> probe,
                       result |-> check_connection(probe)]
        /\ UNCHANGED <<docs, files, history, clock, last, calls>>

ListModels ==
    \E probe \in Probes :
        /\ applied' = [fn |-> "list_models", done |-> TRUE, probe |-> probe,
                       result |-> list_models(probe)]
        /\ UNCHANGED <<docs, files, history, clock, last, calls>>

\* A front end that probes the backend between uploads and analyses
NextProbe ==
    \/ CheckConnection
    \/ ListModels
    \/ Upload({TenderRequest})
    \/ AnalyzeTender({OkReply, TimeoutReply})

SpecProbe == Init /\ [][NextProbe]_vars

\* ------------------------------------------------- deletions, file by file
\* a file of the upload folder disappears outside the program
LoseFile ==
    \E path \in DOMAIN files :
        /\ path.folder = UPLOAD_FOLDER
        /\ files' = os_remove(files, path)
        /\ UNCHANGED <<docs, history, clock, last, applied, calls>>

\* DocumentService.delete_document, with what it was given: the id, whether
\* a row had it and whether the row's file was there
DeleteDocument ==
    \E id \in DocIds :
        LET del == delete_document(docs, files, id)
        IN  /\ docs' = del.docs
            /\ files' = del.files
            /\ last' = [NoOutcome EXCEPT !.op = "delete_document", !.ok = del.ok,
                                         !.unknown = ~del.ok]
            /\ applied' = [fn |-> "delete_document", done |-> TRUE, document_id |-> id,
                           existed |-> id \in DOMAIN docs,
                           had_file |-> id \in DOMAIN docs /\ docs[id].file_path \in DOMAIN files]
            /\ UNCHANGED <<history, clock, calls>>

\* Uploads and deletions in a folder that loses files
NextDelete ==
    \/ Tick
    \/ Upload({TenderRequest, TemplateRequest})
    \/ LoseFile
    \/ DeleteDocument

SpecDelete == Init /\ [][NextDelete]_vars

\* ------------------------------------------- calls in concurrent requests
\* Each request of the threaded front end builds its own services on its own
\* database session and runs its call statement by statement; the rows and
\* the folders are shared.  calls[p] holds the position and the locals of
\* the one call of request p, from before it starts to after its answer.
InProgress(p) == calls[p].pc \notin {"idle", "done", "failed"}

IntegrityError == <<"IntegrityError", "UNIQUE constraint failed: documents.file_hash">>

\* Document(...): the row upload_document builds from its arguments
Document(c, extracted_text, now) ==
    LET extract == c.type = APPEL_OFFRE /\ ~Truthy(c.reference)
        key_info == extract_key_information(extracted_text)
        reference1 == IF extract THEN Or(key_info.reference, c.reference) ELSE c.reference
        title1 == IF extract THEN Or(key_info.title, c.title) ELSE c.title
    IN  [filename |-> c.file_path.name,
         original_filename |-> c.name,
         file_path |-> c.file_path,
         document_type |-> c.type,
         reference |-> Or(reference1, <<"DOC-", strftime(now)>>),
         title |-> Or(title1, c.name),
         extracted_text |-> extracted_text,
         file_hash |-> c.file_hash,
         is_template |-> c.is_template,
         status |-> COMPLETED,
         parent_id |-> NoId]

\* upload_document, first statements: the bytes go to a file of the upload
\* folder under a fresh name
WriteUpload(p, c, content, name, type, reference, title, is_template) ==
    LET file_ext == Suffix(name)
        unique_filename == <<"uuid", uuid4(docs, files), file_ext>>
        file_path == [folder |-> UPLOAD_FOLDER, name |-> unique_filename]
    IN  /\ files' = write_file(files, file_path, content)
        /\ calls' = [calls EXCEPT ![p] =
                       [c EXCEPT !.pc = "written", !.content = content, !.name = name,
                                 !.type = type, !.reference = reference, !.title = title,
                                 !.is_template = is_template, !.file_path = file_path]]

\* a request calls upload_document
UploadWrite(p, requests) ==
    \E r \in requests :
        /\ calls[p].pc = "idle"
        /\ WriteUpload(p, [Idle EXCEPT !.fn = "upload_document"], r.content, r.name, r.type,
                       r.reference, None, r.is_template)
        /\ UNCHANGED <<docs, history, clock, last, applied>>

\* upload_document: the digest of the file written, and the lookup by digest
UploadLookup(p) ==
    LET file_hash == calculate_file_hash(files[calls[p].file_path])
        existing == first_by_hash(docs, file_hash)
    IN  /\ calls[p].pc = "written"
        /\ calls' = [calls EXCEPT ![p].pc = IF existing # NoId THEN "existing" ELSE "fresh",
                                  ![p].file_hash = file_hash,
                                  ![p].existing = existing]
        /\ UNCHANGED <<docs, files, history, clock, last, applied>>

\* where a call stands once upload_document has returned
Uploaded(c) == IF c.fn = "upload_document" THEN "done" ELSE "registered"

\* upload_document: a row has the digest; the file written goes and the
\* row found is returned
UploadRemove(p) ==
    /\ calls[p].pc = "existing"
    /\ files' = os_remove(files, calls[p].file_path)
    /\ calls' = [calls EXCEPT ![p].pc = Uploaded(calls[p]),
                              ![p].id = calls[p].existing,
                              ![p].created = FALSE]
    /\ UNCHANGED <<docs, history, clock, last, applied>>

\* upload_document: no row had the digest; the text is extracted, the row
\* built, added and committed.  The commit fails on the UNIQUE index of
\* file_hash when a row with the digest was committed since the lookup, and
\* the exception ends the call.
UploadInsert(p) ==
    LET c == calls[p]
        extracted_text == extract_text(files[c.file_path], Suffix(c.name))
        document == Document(c, extracted_text, clock)
        id == NewId(docs)
    IN  /\ c.pc = "fresh"
        /\ IF first_by_hash(docs, c.file_hash) # NoId
           THEN /\ calls' = [calls EXCEPT ![p].pc = "failed", ![p].err = IntegrityError]
                /\ UNCHANGED docs
           ELSE /\ docs' = [i \in DOMAIN docs \cup {id} |-> IF i = id THEN document ELSE docs[i]]
                /\ calls' = [calls EXCEPT ![p].pc = Uploaded(c), ![p].id = id,
                                          ![p].created = TRUE]
        /\ UNCHANGED <<files, history, clock, last, applied>>

\* generate_quote and generate_quote_stream up to the end of the model's
\* answer: the tender is read, the prompt built and sent, the answer taken.
\* overlapped notes that the call began while the other request's call was
\* in progress.
GenerateBegin(p, replies, scripts) ==
    \E id \in DocIds, fn \in {"generate_quote", "generate_quote_stream"},
       reply \in replies, script \in scripts :
        LET tender == get_document(docs, id)
            generated == generate(reply)
            run == run_stream(script, 1, <<>>, <<>>)
            c == [Idle EXCEPT !.fn = fn, !.tender_id = id,
                              !.overlapped = \E q \in Procs \ {p} : InProgress(q)]
        IN  /\ calls[p].pc = "idle"
            /\ fn = "generate_quote" => script = CHOOSE s \in scripts : TRUE
            /\ fn = "generate_quote_stream" => reply = CHOOSE r \in replies : TRUE
            /\ calls' = [q \in Procs |->
                  IF q # p
                  THEN [calls[q] EXCEPT !.overlapped = @ \/ InProgress(q)]
                  ELSE IF tender = NoId
                  THEN [c EXCEPT !.pc = "failed", !.err = NotFound("Appel d'offre ", id)]
                  ELSE IF fn = "generate_quote" /\ generated.raised
                  THEN [c EXCEPT !.pc = "failed", !.err = <<"Exception">> \o generated.value,
                                 !.sent = TRUE]
                  ELSE [c EXCEPT !.pc = "generated", !.sent = TRUE,
                                 !.tender_reference = docs[tender].reference,
                                 !.embedded = templates_embedded(docs, NoTemplateIds),
                                 !.generated_content =
                                     IF fn = "generate_quote" THEN generated.value
                                     ELSE Concat(run.chunks),
                                 !.events =
                                     IF fn = "generate_quote" THEN <<>>
                                     ELSE Events(run.chunks, "generating")]]
            /\ UNCHANGED <<docs, files, history, clock, last, applied>>

\* the output file: named after the tender's reference and the second of
\* the clock, written by create_word_document
GenerateWrite(p) ==
    LET c == calls[p]
        output_filename == <<"Offre_">> \o c.tender_reference \o <<"_", strftime(clock), ".docx">>
        output_path == [folder |-> GENERATED_FOLDER, name |-> output_filename]
        bytes == create_word_document(c.generated_content,
                                      <<"Offre de Prix - ">> \o c.tender_reference,
                                      c.tender_reference, clock)
    IN  /\ c.pc = "generated"
        /\ files' = write_file(files, output_path, bytes)
        /\ calls' = [calls EXCEPT ![p].pc = "file_written",
                                  ![p].output_filename = output_filename,
                                  ![p].output_path = output_path,
                                  ![p].output_bytes = bytes]
        /\ UNCHANGED <<docs, history, clock, last, applied>>

\* open(output_path, 'rb').read(), handed to upload_document
GenerateRead(p) ==
    LET c == calls[p]
    IN  /\ c.pc = "file_written"
        /\ WriteUpload(p, c, files[c.output_path], c.output_filename, GENERATED,
                       <<"OFF-">> \o c.tender_reference,
                       <<"Offre générée pour ">> \o c.tender_reference, FALSE)
        /\ UNCHANGED <<docs, history, clock, last, applied>>

\* generated_doc.parent_id = tender_document_id, committed
GenerateSetParent(p) ==
    /\ calls[p].pc = "registered"
    /\ docs' = [docs EXCEPT ![calls[p].id].parent_id = calls[p].tender_id]
    /\ calls' = [calls EXCEPT ![p].pc = "parented"]
    /\ UNCHANGED <<files, history, clock, last, applied>>

\* the GenerationHistory row, added and committed
GenerateRecord(p) ==
    LET c == calls[p]
        row == [source_document_id |-> c.tender_id,
                generated_document_id |-> c.id,
                templates_used |-> templates_used(NoTemplateIds),
                embedded |-> c.embedded]
    IN  /\ c.pc = "parented"
        /\ history' = Append(history, row)
        /\ calls' = [calls EXCEPT ![p].pc = "recorded", ![p].history_id = Len(history) + 1]
        /\ UNCHANGED <<docs, files, clock, last, applied>>

\* a generation that hands its document over once the parent is set,
\* whether or not the history row is written
GenerateReturn_early(p) ==
    LET c == calls[p]
    IN  /\ c.pc \in {"parented", "recorded"}
        /\ calls' = [calls EXCEPT
                       ![p].pc = "done",
                       ![p].events = IF c.fn = "generate_quote_stream"
                                     THEN Append(c.events, Event(<<>>, c.id, "completed"))
                                     ELSE c.events]
        /\ UNCHANGED <<docs, files, history, clock, last, applied>>

\* return generated_doc, or the yield of the 'completed' event
GenerateReturn(p) ==
    LET c == calls[p]
    IN  /\ c.pc = "recorded"
        /\ calls' = [calls EXCEPT
                       ![p].pc = "done",
                       ![p].events = IF c.fn = "generate_quote_stream"
                                     THEN Append(c.events, Event(<<>>, c.id, "completed"))
                                     ELSE c.events]
        /\ UNCHANGED <<docs, files, history, clock, last, applied>>

\* the request is answered with what its call returned or raised
Respond(p) ==
    LET c == calls[p]
    IN  /\ c.pc \in {"done", "failed"}
        /\ ~c.answered
        /\ last' = [NoOutcome EXCEPT !.op = c.fn, !.content = c.content,
                                     !.tender = IF c.pc = "done" THEN c.tender_id ELSE NoId,
                                     !.ok = c.pc = "done", !.id = c.id,
                                     !.created = c.created, !.err = c.err, !.sent = c.sent]
        /\ calls' = [calls EXCEPT ![p].answered = TRUE]
        /\ UNCHANGED <<docs, files, history, clock, applied>>

\* Uploads of the same and of other bytes in two requests at once
NextRace ==
    \/ Tick
    \/ \E p \in Procs :
          \/ UploadWrite(p, {TenderRequest, RenamedRequest, TemplateRequest})
          \/ UploadLookup(p)
          \/ UploadRemove(p)
          \/ UploadInsert(p)
          \/ Respond(p)

SpecRace == Init /\ [][NextRace]_vars

\* Generations in two requests at once, on the tenders uploaded
NextConcurrent ==
    \/ Tick
    \/ Upload({TenderRequest})
    \/ \E p \in Procs :
          \/ GenerateBegin(p, {OkReply, EmptyReply},
                           {Script(<<"fragment_done">>, "eof")})
          \/ GenerateWrite(p)
          \/ GenerateRead(p)
          \/ UploadLookup(p)
          \/ UploadRemove(p)
          \/ UploadInsert(p)
          \/ GenerateSetParent(p)
          \/ GenerateRecord(p)
          \/ GenerateReturn(p)
          \/ Respond(p)

SpecConcurrent == Init /\ [][NextConcurrent]_vars

\* ------------------------------------- a streaming generation, pull by pull
\* generate_quote_stream and generate_stream are generators: their bodies run
\* only while the consumer waits in next().  The call of request p is
\*   "created"     the generator object exists, its body has not started
\*   "running"     in generate_stream's loop, about to take the next line
\*   "forwarding"  generate_stream has yielded a chunk, generate_quote_stream
\*                 has appended it and is about to yield its event
\*   "yielded"     suspended at the yield of a 'generating' event
\*   "generated"   past the loop, before the output file is written
\*   "abandoned"   the consumer has stopped iterating and closed the generator
\* and then at the positions of a generation after the model's answer.
StreamOpen(p, scripts) ==
    \E id \in DocIds, script \in scripts :
        /\ calls[p].pc = "idle"
        /\ calls' = [calls EXCEPT ![p] = [Idle EXCEPT !.pc = "created",
                                                      !.fn = "generate_quote_stream",
                                                      !.tender_id = id,
                                                      !.script = script]]
        /\ UNCHANGED <<docs, files, history, clock, last, applied>>

\* the consumer calls next(): the first time the body starts (the tender is
\* read, the prompt built, the request sent); afterwards generate_stream
\* resumes behind the yield it was suspended at, into its loop or, after a
\* done payload or the error chunk, to its end
Pull(p) ==
    LET c == calls[p]
        tender == get_document(docs, c.tender_id)
        entered == [c EXCEPT !.pulls = @ + 1]
    IN  /\ c.pc \in {"created", "yielded"}
        /\ calls' = [calls EXCEPT ![p] =
              IF c.pc = "created" /\ tender = NoId
              THEN [entered EXCEPT !.pc = "failed",
                                   !.err = NotFound("Appel d'offre ", c.tender_id)]
              ELSE IF c.pc = "created"
              THEN [entered EXCEPT !.pc = "running", !.sent = TRUE,
                                   !.tender_reference = docs[tender].reference,
                                   !.embedded = templates_embedded(docs, NoTemplateIds)]
              ELSE IF c.at = "yielded"
              THEN [entered EXCEPT !.pc = "running"]
              ELSE [entered EXCEPT !.pc = "generated", !.at = "end",
                                   !.generated_content = Concat(c.chunks)]]
        /\ UNCHANGED <<docs, files, history, clock, last, applied>>

\* generate_stream that goes on reading after a done payload
ReadLine_on(p) ==
    LET c == calls[p]
        item == IF c.read < Len(c.script.lines)
                THEN LineItem(c.script.lines[c.read + 1], Len(c.received) + 1)
                ELSE Item(c.script.end, FALSE, <<>>, FALSE)
        step == generate_stream([item EXCEPT !.done = FALSE])
        taken == [c EXCEPT !.read = @ + 1,
                           !.received = IF item.has_response THEN Append(@, item.response)
                                        ELSE @]
    IN  /\ c.pc = "running"
        /\ calls' = [calls EXCEPT ![p] =
              IF step.yield # <<>>
              THEN [taken EXCEPT !.pc = "forwarding", !.at = step.at,
                                 !.chunks = @ \o step.yield]
              ELSE IF step.at = "reading"
              THEN taken
              ELSE [taken EXCEPT !.pc = "generated", !.at = "end",
                                 !.generated_content = Concat(c.chunks)]]
        /\ UNCHANGED <<docs, files, history, clock, last, applied>>

\* one turn of generate_stream's loop: the next line of the response is
\* taken (or its end, or its failure, met) and a chunk yielded or not
ReadLine(p) ==
    LET c == calls[p]
        item == IF c.read < Len(c.script.lines)
                THEN LineItem(c.script.lines[c.read + 1], Len(c.received) + 1)
                ELSE Item(c.script.end, FALSE, <<>>, FALSE)
        step == generate_stream(item)
        taken == [c EXCEPT !.read = @ + 1,
                           !.received = IF item.has_response THEN Append(@, item.response)
                                        ELSE @]
    IN  /\ c.pc = "running"
        /\ calls' = [calls EXCEPT ![p] =
              IF step.yield # <<>>
              THEN [taken EXCEPT !.pc = "forwarding", !.at = step.at,
                                 !.chunks = @ \o step.yield]
              ELSE IF step.at = "reading"
              THEN taken
              ELSE [taken EXCEPT !.pc = "generated", !.at = "end",
                                 !.generated_content = Concat(c.chunks)]]
        /\ UNCHANGED <<docs, files, history, clock, last, applied>>

\* a loop that collects the chunks and keeps reading instead of yielding
\* each one
Forward_buffering(p) ==
    LET c == calls[p]
        chunk == c.chunks[Len(c.chunks)]
    IN  /\ c.pc = "forwarding"
        /\ calls' = [calls EXCEPT
                       ![p].pc = IF c.at = "yielded" THEN "running" ELSE "yielded",
                       ![p].events = Append(c.events, Event(chunk, NoId, "generating"))]
        /\ UNCHANGED <<docs, files, history, clock, last, applied>>

\* full_content += chunk; yield chunk, None, {'status': 'generating'}
Forward(p) ==
    LET c == calls[p]
        chunk == c.chunks[Len(c.chunks)]
    IN  /\ c.pc = "forwarding"
        /\ calls' = [calls EXCEPT
                       ![p].pc = "yielded",
                       ![p].events = Append(c.events, Event(chunk, NoId, "generating"))]
        /\ UNCHANGED <<docs, files, history, clock, last, applied>>

\* a generator that, when closed, saves what was generated so far: the
\* output file is written on the way out
Abandon_saving(p) ==
    LET c == calls[p]
        output_filename == <<"Offre_">> \o c.tender_reference \o <<"_", strftime(clock), ".docx">>
        output_path == [folder |-> GENERATED_FOLDER, name |-> output_filename]
        bytes == create_word_document(Concat(c.chunks),
                                      <<"Offre de Prix - ">> \o c.tender_reference,
                                      c.tender_reference, clock)
    IN  /\ c.pc \in {"created", "yielded"}
        /\ calls' = [calls EXCEPT ![p].pc = "abandoned"]
        /\ files' = IF c.pc = "yielded" THEN write_file(files, output_path, bytes) ELSE files
        /\ UNCHANGED <<docs, history, clock, last, applied>>

\* the consumer stops iterating; the suspended generators are closed and
\* none of their statements runs
Abandon(p) ==
    /\ calls[p].pc \in {"created", "yielded"}
    /\ calls' = [calls EXCEPT ![p].pc = "abandoned"]
    /\ files' = files
    /\ UNCHANGED <<docs, history, clock, last, applied>>

\* every sequence of at most n lines, those with lines behind a done payload
\* included
RECURSIVE AnyLines(_)
AnyLines(n) ==
    IF n = 0 THEN {<<>>}
    ELSE AnyLines(n - 1)
         \cup {Append(l, k) : l \in {m \in AnyLines(n - 1) : Len(m) = n - 1},
                              k \in {"empty", "fragment", "fragment_done", "no_fragment", "done"}}

AnyScripts == {Script(l, e) : l \in AnyLines(MaxLines), e \in {"eof", "exception"}}

\* One request streams a generation, on every response of the backend, and
\* its consumer pulls or stops; meanwhile the tender and copies of output
\* files are uploaded
NextPull ==
    \/ Upload({TenderRequest} \cup Copies)
    \/ StreamOpen(1, AnyScripts)
    \/ Pull(1)
    \/ ReadLine(1)
    \/ Forward(1)
    \/ Abandon(1)
    \/ GenerateWrite(1)
    \/ GenerateRead(1)
    \/ UploadLookup(1)
    \/ UploadRemove(1)
    \/ UploadInsert(1)
    \/ GenerateSetParent(1)
    \/ GenerateRecord(1)
    \/ GenerateReturn(1)
    \/ Respond(1)

SpecPull == Init /\ [][NextPull]_vars

\* ------------------------------------- document_processor: PDFs page by page
MaxPages == 2   \* pages of a PDF

\* the text of a page: none, or one of two texts
PageTexts == {<<>>, <<"A">>, <<"B">>}

RECURSIVE PageSeqs(_)
PageSeqs(n) ==
    IF n = 0 THEN {<<>>}
    ELSE PageSeqs(n - 1)
         \cup {Append(ps, t) : ps \in {m \in PageSeqs(n - 1) : Len(m) = n - 1}, t \in PageTexts}

\* What a library makes of a file: the texts of its pages, and the page at
\* which it raises (0: it does not; Len(pages) + 1: behind the last page,
\* when the file is closed; 1 also stands for a failure to open the file)
Readings(library) ==
    {[library |-> library, pages |-> ps, fails_at |-> k] :
        ps \in PageSeqs(MaxPages), k \in 0..(MaxPages + 1)}

\* the page texts a reading appends to text_parts before it ends or raises
Extracted(reading) ==
    LET n == IF reading.fails_at = 0 THEN Len(reading.pages)
             ELSE Min({reading.fails_at - 1, Len(reading.pages)})
    IN  SelectSeq(SubSeq(reading.pages, 1, n), LAMBDA t : t # <<>>)

\* "\n\n".join(text_parts)
RECURSIVE join_parts(_)
join_parts(text_parts) ==
    IF text_parts = <<>> THEN <<>>
    ELSE IF Len(text_parts) = 1 THEN text_parts[1]
    ELSE text_parts[1] \o <<"\n\n">> \o join_parts(Tail(text_parts))

\* extract_text_from_pdf on what pdfplumber and PyPDF2 make of the file:
\* text_parts is one list, filled by both loops
extract_pdf_pages(plumber, pypdf) ==
    LET text_parts == Extracted(plumber)
    IN  IF plumber.fails_at = 0 THEN join_parts(text_parts)
        ELSE IF pypdf.fails_at = 0 THEN join_parts(text_parts \o Extracted(pypdf))
        ELSE <<"Erreur lors de l'extraction du PDF: ", pypdf.library>>

InitPdf ==
    /\ docs = << >>
    /\ files = << >>
    /\ history = << >>
    /\ clock = 0
    /\ last = NoOutcome
    /\ calls = [p \in Procs |-> Idle]
    /\ applied \in {[fn |-> "extract_text_from_pdf", done |-> FALSE, plumber |-> a,
                     pypdf |-> b, text |-> <<>>] :
                        a \in Readings("pdfplumber"), b \in Readings("PyPDF2")}

ExtractPdf ==
    /\ applied.fn = "extract_text_from_pdf"
    /\ ~applied.done
    /\ applied' = [applied EXCEPT !.done = TRUE,
                                  !.text = extract_pdf_pages(applied.plumber, applied.pypdf)]
    /\ UNCHANGED <<docs, files, history, clock, last, calls>>

\* extract_text_from_pdf on every pair of readings of at most MaxPages pages
SpecPdf == InitPdf /\ [][ExtractPdf]_vars

\* ------------------------------------------- uploads of bytes already stored
\* the tender's file sent again as a template, under another name
RecategorisedRequest == Request(PdfBytes, <<"modele", ".pdf">>, OFFRE_PRIX, <<"M-9">>, TRUE)

\* Uploads of the same bytes under different names, categories and
\* references, between deletions
NextDuplicate ==
    \/ Tick
    \/ Upload({TenderRequest, RenamedRequest, RecategorisedRequest, TemplateRequest,
               EmptyTemplateRequest})
    \/ Delete

SpecDuplicate == Init /\ [][NextDuplicate]_vars

\* ------------------------------------------------ uploads with a title typed
\* the titles a caller passes: none, or one typed by the user
Titles == {None, <<"Titre">>}

\* a tender whose text has no reference and no line: nothing to extract
BlankPdfBytes == [kind |-> "raw", fmt |-> ".pdf", text |-> <<>>]

BlankTenderRequest == Request(BlankPdfBytes, <<"vide", ".pdf">>, APPEL_OFFRE, None, FALSE)

\* DocumentService.upload_document called with a title, with what it was
\* given
UploadTitled(requests, titles) ==
    \E r \in requests, title \in titles :
        LET up == upload_document(docs, files, r.content, r.name, r.type, r.reference,
                                  title, r.is_template, clock)
        IN  /\ up.id <= MaxDocs
            /\ docs' = up.docs
            /\ files' = up.files
            /\ last' = [NoOutcome EXCEPT !.op = "upload_document", !.content = r.content,
                                         !.id = up.id, !.created = up.created]
            /\ applied' = [fn |-> "upload_document", done |-> TRUE, title |-> title,
                           reference |-> r.reference, original_filename |-> r.name,
                           id |-> up.id, created |-> up.created]
            /\ UNCHANGED <<history, clock, calls>>

\* Uploads with and without a title and a reference, between deletions
NextTitled ==
    \/ Tick
    \/ UploadTitled({TenderRequest, RenamedRequest, BlankTenderRequest, TemplateRequest,
                     EmptyTemplateRequest}, Titles)
    \/ DeleteDocument

SpecTitled == Init /\ [][NextTitled]_vars

\* ------------------------------------------ the parser's loop, line by line
\* the loop body with headings that leave the pending list where it is
parse_line_keeping(raw, sections, current_list) ==
    LET line == strip(raw)
        flushed == Flush(sections, current_list)
    IN  IF line = <<>> THEN [sections |-> flushed, current_list |-> <<>>]
        ELSE IF startswith(line, <<"#", " ">>)
        THEN [sections |-> Append(sections, Heading(From(line, 2), 1)),
              current_list |-> current_list]
        ELSE IF startswith(line, <<"#", "#", " ">>)
        THEN [sections |-> Append(sections, Heading(From(line, 3), 2)),
              current_list |-> current_list]
        ELSE IF startswith(line, <<"#", "#", "#", " ">>)
        THEN [sections |-> Append(sections, Heading(From(line, 4), 3)),
              current_list |-> current_list]
        ELSE IF startswith(line, <<"-", " ">>) \/ startswith(line, <<"*", " ">>)
        THEN [sections |-> sections, current_list |-> Append(current_list, From(line, 2))]
        ELSE IF re_match(line)
        THEN [sections |-> sections, current_list |-> Append(current_list, re_sub(line))]
        ELSE [sections |-> Append(flushed, Paragraph(line)), current_list |-> <<>>]

\* one turn of the for loop of parse_generated_content: sections and
\* current_list after the line
parse_line(raw, sections, current_list) ==
    LET line == strip(raw)
        flushed == Flush(sections, current_list)
    IN  IF line = <<>> THEN [sections |-> flushed, current_list |-> <<>>]
        ELSE IF startswith(line, <<"#", " ">>)
        THEN [sections |-> Append(flushed, Heading(From(line, 2), 1)), current_list |-> <<>>]
        ELSE IF startswith(line, <<"#", "#", " ">>)
        THEN [sections |-> Append(flushed, Heading(From(line, 3), 2)), current_list |-> <<>>]
        ELSE IF startswith(line, <<"#", "#", "#", " ">>)
        THEN [sections |-> Append(flushed, Heading(From(line, 4), 3)), current_list |-> <<>>]
        ELSE IF startswith(line, <<"-", " ">>) \/ startswith(line, <<"*", " ">>)
        THEN [sections |-> sections, current_list |-> Append(current_list, From(line, 2))]
        ELSE IF re_match(line)
        THEN [sections |-> sections, current_list |-> Append(current_list, re_sub(line))]
        ELSE [sections |-> Append(flushed, Paragraph(line)), current_list |-> <<>>]

InitParseLoop ==
    /\ docs = << >>
    /\ files = << >>
    /\ history = << >>
    /\ clock = 0
    /\ last = NoOutcome
    /\ calls = [p \in Procs |-> Idle]
    /\ applied \in {[fn |-> "parse_generated_content", done |-> FALSE, content |-> c,
                     lines |-> split(c, <<>>), sections |-> <<>>, current_list |-> <<>>] :
                        c \in Contents}

\* the loop takes the next line
ParseLine ==
    LET after == parse_line(Head(applied.lines), applied.sections, applied.current_list)
    IN  /\ applied.fn = "parse_generated_content"
        /\ ~applied.done
        /\ applied.lines # <<>>
        /\ applied' = [applied EXCEPT !.lines = Tail(@),
                                      !.sections = after.sections,
                                      !.current_list = after.current_list]
        /\ UNCHANGED <<docs, files, history, clock, last, calls>>

\* behind the loop: the pending list is appended, current_list is left as
\* it is, and sections is returned
ParseReturn ==
    /\ applied.fn = "parse_generated_content"
    /\ ~applied.done
    /\ applied.lines = <<>>
    /\ applied' = [applied EXCEPT !.done = TRUE,
                                  !.sections = Flush(@, applied.current_list)]
    /\ UNCHANGED <<docs, files, history, clock, last, calls>>

\* parse_generated_content line by line on every text of at most
\* MaxParseLines lines
SpecParseLoop == InitParseLoop /\ [][ParseLine \/ ParseReturn]_vars

\* ------------------------------------------------------------------ claims
GenOps == {"generate_quote", "generate_quote_stream"}

StreamOps == {"analyze_tender_stream", "generate_quote_stream"}

\* the backend failed the request of the call l reports: a timeout, a
\* connection failure or a status other than 200 on a plain request, a
\* failure while the response was read on a streaming one
BackendFailed(l) ==
    /\ l.sent
    /\ IF l.op \in StreamOps
       THEN l.stream.failed
       ELSE l.reply.kind \in {"timeout", "connection"} \/ l.reply.status # 200

\* C1: a generate_quote or generate_quote_stream call whose backend request
\* failed (timeout, connection failure, non-success status, failure in the
\* middle of the stream) leaves the documents and the history as they were.
C1_FailedGenerationPersistsNothing ==
    [][(clock' = clock /\ last'.op \in GenOps /\ BackendFailed(last'))
         => (docs' = docs /\ history' = history)]_vars

\* C2: when the chunks generate_quote_stream consumed contain generate_stream's
\* error chunk, the call emits no 'completed' event and no Word file holds the
\* error text.
C2_ErrorChunkIsTerminal ==
    (last.op = "generate_quote_stream" /\ ErrorChunk \in Range(last.stream.chunks))
      => /\ \A i \in DOMAIN last.stream.events : last.stream.events[i].status # "completed"
         /\ \A p \in DOMAIN files :
               files[p].kind = "docx" => ErrorChunk[1] \notin Range(files[p].body)

\* exactly one row has the digest of bytes, its id is id, and exactly one file
\* of the upload folder holds bytes
StoredOnce(bytes, id) ==
    /\ {i \in DOMAIN docs : docs[i].file_hash = calculate_file_hash(bytes)} = {id}
    /\ Cardinality({p \in DOMAIN files : p.folder = UPLOAD_FOLDER /\ files[p] = bytes}) = 1

\* C3: after upload_document returns, the bytes it was given are stored once
\* (one row, one backing file), and an upload_document call that follows one
\* with the same bytes, under whatever name, returns the same id.
C3_IdempotentIngestion ==
    /\ [](last.op = "upload_document" => StoredOnce(last.content, last.id))
    /\ [][(clock' = clock /\ last.op = "upload_document" /\ last'.op = "upload_document"
             /\ last'.content = last.content)
            => last'.id = last.id]_vars

\* the second upload of the tender's bytes, under another name, has returned
C3_SecondUploadReturned ==
    /\ last.op = "upload_document"
    /\ ~last.created
    /\ last.content = PdfBytes
    /\ docs[last.id].original_filename = TenderRequest.name
    /\ Cardinality(DOMAIN files) = 1

\* C4: no two rows of the documents table with distinct ids have the same
\* file_hash.
C4_DigestUnique ==
    \A i \in DOMAIN docs, j \in DOMAIN docs : i # j => docs[i].file_hash # docs[j].file_hash

\* a generation has produced the bytes of a stored document and returned it
C4_GenerationFoundDigest ==
    /\ last.op = "generate_quote"
    /\ last.ok
    /\ ~last.created
    /\ Cardinality(DOMAIN docs) = 2

\* the file name of the offer generated from a tender starts with this
OfferPrefix(tender_id) == <<"Offre_">> \o docs[tender_id].reference \o <<"_">>

\* C5: when the backend's stream delivers its fragments and then signals done,
\* generate_quote_stream emits one 'generating' event per fragment, in order
\* and unchanged, then one 'completed' event, the last; the document of that
\* event has a file name starting with Offre_<tender reference>_ and the
\* tender as its parent; the call adds exactly one history row, whose
\* source_document_id is the tender's id.
C5_DoneStreamCompletes ==
    /\ [](( last.op = "generate_quote_stream" /\ last.ok /\ last.stream.done)
           => LET events == last.stream.events
                  n == Len(last.stream.received)
              IN  /\ Len(events) = n + 1
                  /\ \A i \in 1..n : events[i] = Event(last.stream.received[i], NoId,
                                                       "generating")
                  /\ events[n + 1] = Event(<<>>, last.id, "completed")
                  /\ IsPrefix(OfferPrefix(last.tender), docs[last.id].original_filename)
                  /\ docs[last.id].parent_id = last.tender
                  /\ history[Len(history)].source_document_id = last.tender
                  /\ history[Len(history)].generated_document_id = last.id)
    /\ [][(clock' = clock /\ last'.op = "generate_quote_stream" /\ last'.ok
             /\ last'.stream.done)
            => history' = Append(history, history'[Len(history')])]_vars

\* C6: a tender id, or an id of the template list, that names no stored
\* document makes generate_quote, generate_quote_stream, analyze_tender and
\* analyze_tender_stream raise the not-found error, before any request goes
\* to the backend.
C6_UnknownIdRaisesNotFound ==
    (last.op \in GenOps \cup {"analyze_tender", "analyze_tender_stream"} /\ last.unknown)
      => (~last.ok /\ last.err # <<>> /\ Head(last.err) = "ValueError" /\ ~last.sent)

\* C7: a step changes the history only by appending one row to it, and it is
\* a generate_quote or generate_quote_stream call that completed; every such
\* call appends one row.  No step, delete_document's included, changes or
\* removes a row.
C7_HistoryAppendOnly ==
    [][IF clock' = clock /\ last'.op \in GenOps /\ last'.ok
       THEN Len(history') = Len(history) + 1 /\ SubSeq(history', 1, Len(history)) = history
       ELSE history' = history]_vars

\* delete_document has removed the document a history row points to, and the
\* two rows written are still there
C7_RowOutlivesDocument ==
    /\ last.op = "delete_document"
    /\ last.ok
    /\ Len(history) = 2
    /\ \E i \in DOMAIN history : history[i].generated_document_id \notin DOMAIN docs

\* C8: the templates_used of every history row is the serialized list of the
\* ids of the templates whose text went into the prompt, in order.
C8_TemplatesUsedAreEmbedded ==
    \A i \in DOMAIN history : history[i].templates_used = json_dumps(history[i].embedded)

\* C9: when the connection or the decoding fails while generate_stream runs,
\* the consumer gets the fragments received so far, unchanged and in order,
\* then one error chunk, and no exception.
C9_FailureYieldsOneErrorChunk ==
    (last.op \in StreamOps /\ last.sent /\ last.stream.failed)
      => /\ last.ok
         /\ last.stream.chunks = Append(last.stream.received, ErrorChunk)

\* the response failed after a fragment had been received
C9_FailedMidStream ==
    /\ last.op = "analyze_tender_stream"
    /\ last.stream.failed
    /\ Len(last.stream.received) >= 1

\* the kind of failure a caller reads from the message of generate's Exception
ErrorKind(err) ==
    CASE IsPrefix(<<"Exception", "Timeout: La génération a pris trop de temps">>, err)
           -> "timeout"
      [] IsPrefix(<<"Exception", "Impossible de se connecter à Ollama sur ">>, err)
           -> "connection"
      [] IsPrefix(<<"Exception", "Erreur Ollama: ">>, err) -> "response"
      [] OTHER -> "other"

\* C10: on a timeout, a connection failure or a status other than 200,
\* generate raises; the three messages differ, the last one carries the
\* status and the body; generate_quote and analyze_tender raise it to their
\* caller.
C10_BackendErrorsReachCaller ==
    (last.op \in {"generate_quote", "analyze_tender"} /\ BackendFailed(last))
      => /\ ~last.ok
         /\ ErrorKind(last.err) = last.reply.kind
         /\ last.reply.kind = "response"
              => last.err = <<"Exception", "Erreur Ollama: ", ToString(last.reply.status), " - ">>
                              \o last.reply.body

\* generate_quote has raised the backend's refusal of the request
C10_StatusErrorRaised ==
    /\ last.op = "generate_quote"
    /\ last.sent
    /\ ~last.ok
    /\ last.reply.status = 500

\* what the blocks hold, one entry per heading, paragraph and list item
RECURSIVE Atoms(_)
Atoms(sections) ==
    IF sections = <<>> THEN <<>>
    ELSE LET b == Head(sections)
         IN  (IF b.type = "list"
              THEN [i \in 1..Len(b.items) |-> [kind |-> "item", text |-> b.items[i]]]
              ELSE <<[kind |-> b.type, text |-> b.text]>>) \o Atoms(Tail(sections))

IsSuffix(t, line) == Len(t) <= Len(line) /\ SubSeq(line, Len(line) - Len(t) + 1, Len(line)) = t

NonBlank(line) == strip(line) # <<>>

\* the lines of the text parsed that are not blank
NonBlankLines == SelectSeq(split(applied.content, <<>>), NonBlank)

Parsed == applied.fn = "parse_generated_content" /\ applied.done

\* C11: the blocks hold one heading, paragraph or list item per non-blank
\* line of the input, in the order of the lines, each made of the end of its
\* line; no list block is empty.  A list pending at a heading, a paragraph or
\* the end of the input is therefore emitted, and before what follows it.
C11_ParserKeepsEveryLineInOrder ==
    Parsed =>
      LET atoms == Atoms(applied.sections)
      IN  /\ Len(atoms) = Len(NonBlankLines)
          /\ \A i \in 1..Len(atoms) : IsSuffix(atoms[i].text, strip(NonBlankLines[i]))
          /\ \A i \in 1..Len(applied.sections) :
                applied.sections[i].type = "list" => applied.sections[i].items # <<>>

\* a list pending at a heading and a list pending at the end of the input
C11_PendingListsFlushed ==
    /\ Parsed
    /\ applied.sections = <<ListBlock(<<<<"a">>>>), Heading(<<"T">>, 1), ListBlock(<<<<"b">>>>)>>

\* a line that begins, after its indentation, with '- ' or '* '
BulletLine(line) ==
    startswith(lstrip(line), <<"-", " ">>) \/ startswith(lstrip(line), <<"*", " ">>)

\* a line that begins, after its indentation, with '<digits>. '
OrdinalLine(line) ==
    LET t == lstrip(line)
        k == LeadingDigits(t)
    IN  k >= 1 /\ Len(t) >= k + 2 /\ t[k + 1] = "." /\ t[k + 2] = " "

ListLine(line) == BulletLine(line) \/ OrdinalLine(line)

\* the lengths of the maximal runs of list lines that follow one another
RECURSIVE RunLengths(_, _)
RunLengths(lines, run) ==
    IF lines = <<>> THEN (IF run > 0 THEN <<run>> ELSE <<>>)
    ELSE IF ListLine(Head(lines)) THEN RunLengths(Tail(lines), run + 1)
    ELSE (IF run > 0 THEN <<run>> ELSE <<>>) \o RunLengths(Tail(lines), 0)

\* the number of items of each list block, in order
RECURSIVE ListSizes(_)
ListSizes(sections) ==
    IF sections = <<>> THEN <<>>
    ELSE (IF Head(sections).type = "list" THEN <<Len(Head(sections).items)>> ELSE <<>>)
         \o ListSizes(Tail(sections))

\* C12: the list blocks are the maximal runs of list lines that follow one
\* another: a blank line between list lines separates two blocks, list lines
\* with no blank line between them share one block; and a blank line adds no
\* block of its own.
C12_BlankLineSeparatesLists ==
    Parsed =>
      LET lines == split(applied.content, <<>>)
          others == SelectSeq(NonBlankLines, LAMBDA l : ~ListLine(l))
      IN  /\ ListSizes(applied.sections) = RunLengths(lines, 0)
          /\ Len(applied.sections) = Len(RunLengths(lines, 0)) + Len(others)

\* C13: a line with the prefix '<digits>. ' gives a list item, its text with
\* the prefix removed; ordinal and bullet lines that follow one another with
\* no blank line between them make one list block, in input order.
C13_OrdinalLinesAreListItems ==
    Parsed =>
      LET atoms == Atoms(applied.sections)
          lines == split(applied.content, <<>>)
      IN  /\ Len(atoms) = Len(NonBlankLines)
          /\ \A i \in 1..Len(atoms) :
                OrdinalLine(NonBlankLines[i])
                  => LET t == lstrip(NonBlankLines[i])
                     IN  atoms[i] = [kind |-> "item",
                                     text |-> rstrip(From(t, LeadingDigits(t) + 2))]
          /\ (\A i \in 1..Len(lines) : ListLine(lines[i]))
                => ListSizes(applied.sections) = <<Len(lines)>>

Built == applied.fn = "create_quote_generation_prompt" /\ applied.done

Contains(text, marker) == marker \in Range(text)

\* the user prompt has the templates header exactly when templates were given,
\* and the context header exactly when a context was given
MarkersFollowInputs ==
    /\ Contains(applied.user_prompt, MODELES) <=> applied.templates_content # <<>>
    /\ Contains(applied.user_prompt, CONTEXTE) <=> applied.additional_context # <<>>

MarkerFree(text) == ~Contains(text, MODELES) /\ ~Contains(text, CONTEXTE)

\* C14 as stated: for a tender text without the markers, the user prompt
\* contains 'MODÈLES' exactly when the template list is not empty and
\* 'CONTEXTE SUPPLÉMENTAIRE' exactly when the additional context is not empty.
C14_MarkersIffSections ==
    (Built /\ MarkerFree(applied.tender_content)) => MarkersFollowInputs

\* C14 as amended: the same, for tender texts, template texts and additional
\* contexts none of which contains the markers.
C14_MarkersIffSectionsOnMarkerFreeInputs ==
    ( /\ Built
      /\ MarkerFree(applied.tender_content)
      /\ MarkerFree(applied.additional_context)
      /\ \A i \in 1..Len(applied.templates_content) :
            MarkerFree(applied.templates_content[i]) )
      => MarkersFollowInputs

\* a prompt built from a tender alone: neither header is in it
C14_NoSectionForEmptyInputs ==
    /\ Built
    /\ applied.templates_content = <<>>
    /\ applied.additional_context = <<>>
    /\ MarkerFree(applied.user_prompt)

\* the synthetic texts of extract_text start with one of these
ExtractionMessages ==
    { "Format de fichier non supporté: ", "Erreur lors de l'extraction du PDF: ",
      "Erreur lors de l'extraction du DOCX: " }

\* C15: upload_document given a file of unsupported format, or one whose
\* extraction fails, returns the record it created for the file; the record's
\* text is extract_text's message, which for an unsupported format ends with
\* the extension.
C15_UnreadableFileIsIngested ==
    (last.op = "upload_document"
       /\ last.content \in {r.content : r \in UnreadableRequests} /\ last.created)
      => /\ last.ok
         /\ last.id \in DOMAIN docs
         /\ LET document == docs[last.id]
                ext == Suffix(document.original_filename)
            IN  /\ document.file_hash = calculate_file_hash(last.content)
                /\ document.status = COMPLETED
                /\ document.extracted_text # <<>>
                /\ Head(document.extracted_text) \in ExtractionMessages
                /\ ext \notin {".pdf", ".docx", ".doc"}
                     => document.extracted_text = <<"Format de fichier non supporté: ", ext>>

\* a text file has been ingested as a tender; its title is the message
C15_UnsupportedFileStored ==
    /\ last.op = "upload_document"
    /\ last.content = TextBytes
    /\ last.created
    /\ docs[last.id].title = <<"Format de fichier non supporté: ", ".xyz">>

\* the probe got no usable answer: no response, a status other than 200, or
\* a body that is not an object with a list of named models
ProbeFailed(probe) ==
    \/ probe.kind # "response"
    \/ probe.status # 200
    \/ probe.body.shape # "models"
    \/ \E i \in 1..Len(probe.body.models) : ~probe.body.models[i].has_name

\* C16: check_connection returns, and returns True exactly when the probe got
\* a response of status 200; list_models returns, and returns the empty list
\* whenever the probe failed or its body was malformed.
C16_ProbesNeverRaise ==
    /\ applied.fn = "check_connection"
         => /\ ~applied.result.raised
            /\ applied.result.value
                 <=> (applied.probe.kind = "response" /\ applied.probe.status = 200)
    /\ applied.fn = "list_models"
         => /\ ~applied.result.raised
            /\ ProbeFailed(applied.probe) => applied.result.value = <<>>

\* list_models has answered a list with a nameless entry by the empty list
C16_MalformedListGivesNoModels ==
    /\ applied.fn = "list_models"
    /\ applied.probe.status = 200
    /\ Len(applied.probe.body.models) = 2
    /\ applied.probe.body.models[1].has_name
    /\ applied.result = Returned(<<>>)

\* C17: delete_document given the id of a row removes the row and the row's
\* file and returns True, also when the file is already gone; given an id no
\* row has, it returns False and leaves rows and files as they were.
C17_DeleteRemovesRowAndFile ==
    [][(applied'.fn = "delete_document" /\ last'.op = "delete_document"
          /\ (applied' # applied \/ last' # last \/ docs' # docs))
        => LET id == applied'.document_id
           IN  IF id \in DOMAIN docs
               THEN /\ last'.ok
                    /\ docs' = [i \in DOMAIN docs \ {id} |-> docs[i]]
                    /\ files' = [q \in DOMAIN files \ {docs[id].file_path} |-> files[q]]
                    /\ history' = history
               ELSE /\ ~last'.ok
                    /\ docs' = docs /\ files' = files /\ history' = history]_vars

\* a row whose file was gone has been deleted, another row is left
C17_DeletedWithoutFile ==
    /\ applied.fn = "delete_document"
    /\ applied.existed
    /\ ~applied.had_file
    /\ last.op = "delete_document"
    /\ last.ok
    /\ applied.document_id \notin DOMAIN docs
    /\ DOMAIN docs # {}

\* a call has returned or raised
Ended(p) == calls[p].pc \in {"done", "failed"}

Holders(content) == {i \in DOMAIN docs : docs[i].file_hash = calculate_file_hash(content)}

Backing(content) ==
    {path \in DOMAIN files : path.folder = UPLOAD_FOLDER /\ files[path] = content}

\* C19: however two upload_document calls given the same bytes interleave,
\* once both have ended both have returned, with the same Document id, and
\* exactly one row and one file of the upload folder hold that content.
C19_ConcurrentUploadsShareOneRecord ==
    \A p, q \in Procs :
        (/\ p # q
         /\ calls[p].fn = "upload_document" /\ calls[q].fn = "upload_document"
         /\ Ended(p) /\ Ended(q)
         /\ calls[p].content = calls[q].content)
        => /\ calls[p].pc = "done" /\ calls[q].pc = "done"
           /\ calls[p].id = calls[q].id
           /\ Cardinality(Holders(calls[p].content)) = 1
           /\ Cardinality(Backing(calls[p].content)) = 1

Completed(p) == calls[p].fn \in GenOps /\ calls[p].pc = "done"

\* the call of p registered its own document, under the tender, with a
\* history row of its own
OwnDocument(p, q) ==
    /\ calls[p].id # calls[q].id
    /\ calls[p].id \in DOMAIN docs
    /\ docs[calls[p].id].parent_id = calls[p].tender_id
    /\ calls[p].history_id # calls[q].history_id
    /\ calls[p].history_id \in DOMAIN history
    /\ history[calls[p].history_id].generated_document_id = calls[p].id

\* C18: two generations on the same tender that ran at the same time and
\* both completed have each produced a Document of their own whose parent
\* is the tender and a history row of their own for it; each registered
\* the bytes it wrote itself, in an output file the other did not write.
C18_ConcurrentGenerationsAreIndependent ==
    \A p, q \in Procs :
        (/\ p # q
         /\ Completed(p) /\ Completed(q)
         /\ calls[p].overlapped /\ calls[q].overlapped
         /\ calls[p].tender_id = calls[q].tender_id)
        => /\ OwnDocument(p, q)
           /\ calls[p].content = calls[p].output_bytes
           /\ calls[p].output_path # calls[q].output_path

\* before the step: the output file of p's call is on disk
FileWritten(p) == calls[p].output_path \in DOMAIN files

\* before the step: the document of p's call is committed, under the tender
DocumentCommitted(p) ==
    /\ calls[p].id \in DOMAIN docs
    /\ docs[calls[p].id].parent_id = calls[p].tender_id

\* before the step: the history row of p's call is committed
RecordCommitted(p) ==
    /\ calls[p].history_id \in DOMAIN history
    /\ history[calls[p].history_id].source_document_id = calls[p].tender_id
    /\ history[calls[p].history_id].generated_document_id = calls[p].id

HasCompleted(events) == \E i \in DOMAIN events : events[i].status = "completed"

\* the step in which p's generate_quote returns or p's generate_quote_stream
\* yields its 'completed' event
Completes(p) ==
    /\ calls[p].fn \in GenOps
    /\ \/ calls[p].pc # "done" /\ calls'[p].pc = "done"
       \/ ~HasCompleted(calls[p].events) /\ HasCompleted(calls'[p].events)

\* C20: a generation returns, or yields 'completed', only after its output
\* file was written, then its Document committed with the tender as parent,
\* then its history row committed: the row is committed only once the
\* document is and the parent is set only once the file is written, so no
\* 'completed' event precedes the row.
C20_CompletedOnlyAfterFileDocumentRecord ==
    [][\A p \in Procs :
          /\ Completes(p) => FileWritten(p) /\ DocumentCommitted(p) /\ RecordCommitted(p)
          /\ calls'[p].history_id # calls[p].history_id
                => FileWritten(p) /\ DocumentCommitted(p)
          /\ (calls[p].pc # "parented" /\ calls'[p].pc = "parented")
                => FileWritten(p) /\ calls[p].id \in DOMAIN docs]_vars

\* a streaming generation that ran beside another call has yielded
\* 'completed', and a generate_quote has returned
C20_BothKindsCompleted ==
    \E p, q \in Procs :
        /\ calls[p].fn = "generate_quote_stream" /\ Completed(p)
        /\ HasCompleted(calls[p].events) /\ calls[p].overlapped
        /\ calls[q].fn = "generate_quote" /\ Completed(q)

\* the artefacts of a call of generate_quote_stream: none was made
NothingCreated(c) ==
    /\ c.output_bytes = NoBytes
    /\ c.file_path.folder = ""
    /\ c.id = NoId
    /\ c.history_id = 0

\* C21: when the consumer of generate_quote_stream stops iterating before
\* the 'completed' event (also right after the last 'generating' event),
\* the call has written no output file, registered no Document and written
\* no history row, and stopping changes no file and no row.
C21_AbandonedStreamCreatesNothing ==
    [][\A p \in Procs :
          calls'[p].pc = "abandoned"
          => /\ NothingCreated(calls'[p])
             /\ ~HasCompleted(calls'[p].events)
             /\ calls[p].pc # "abandoned" => UNCHANGED <<docs, files, history>>]_vars

\* the consumer stopped after the event of a chunk that was the last one
C21_StoppedAfterLastChunk ==
    \E p \in Procs :
        /\ calls[p].pc = "abandoned"
        /\ calls[p].at = "last"
        /\ calls[p].events # <<>>
        /\ calls[p].read = Len(calls[p].script.lines)

\* the fragments of the first n lines of a response, in order
RECURSIVE FragmentsOf(_, _, _)
FragmentsOf(lines, n, sent) ==
    IF n = 0 \/ lines = <<>> THEN <<>>
    ELSE LET item == LineItem(Head(lines), sent + 1)
         IN  IF item.has_response
             THEN <<item.response>> \o FragmentsOf(Tail(lines), n - 1, sent + 1)
             ELSE FragmentsOf(Tail(lines), n - 1, sent)

\* the lines of a response up to its first done payload, or all of them
UpToDone(lines) ==
    LET dones == {i \in DOMAIN lines : lines[i] \in {"fragment_done", "done"}}
    IN  IF dones = {} THEN Len(lines) ELSE Min(dones)

HasDone(lines) == \E i \in DOMAIN lines : lines[i] \in {"fragment_done", "done"}

\* C22: on a response that ends with a done payload or with the end of the
\* stream, the chunks generate_stream has yielded are at every moment the
\* fragments of the lines taken so far, in arrival order (nothing for an
\* empty line or a payload without fragment); no line behind a done
\* payload is taken, and once the generator has ended the chunks are the
\* fragments of the lines up to the done payload or the end.
C22_StreamYieldsFragmentsInOrder ==
    \A p \in Procs :
        LET c == calls[p]
            lines == c.script.lines
        IN  (c.fn = "generate_quote_stream" /\ (HasDone(lines) \/ c.script.end = "eof"))
            => /\ c.chunks = FragmentsOf(lines, c.read, 0)
               /\ c.read <= IF HasDone(lines) THEN UpToDone(lines) ELSE Len(lines) + 1
               /\ c.at = "end" => c.chunks = FragmentsOf(lines, UpToDone(lines), 0)

\* the generator ended on a done payload that had lines behind it, having
\* yielded a fragment
C22_EndedAtDoneBeforeMoreLines ==
    \E p \in Procs :
        /\ calls[p].at = "end"
        /\ HasDone(calls[p].script.lines)
        /\ UpToDone(calls[p].script.lines) < Len(calls[p].script.lines)
        /\ calls[p].chunks # <<>>

\* the 'generating' events delivered to the consumer of p's call
Delivered(c) == Cardinality({i \in DOMAIN c.events : c.events[i].status = "generating"})

\* C23: streaming is pull-driven and unbuffered.  At every moment at most
\* one chunk has been yielded by generate_stream and not yet delivered as
\* an event; a line of the response is taken only while a next() of the
\* consumer is waiting, every earlier chunk delivered; and once the
\* consumer has stopped no further line is taken.
C23_PullDrivenNoBuffering ==
    [][\A p \in Procs :
          LET c == calls[p]
          IN  /\ Len(c.chunks) - Delivered(c) \in {0, 1}
              /\ calls'[p].read # c.read
                    => /\ Delivered(c) = Len(c.chunks)
                       /\ c.pulls = Delivered(c) + 1
                       /\ calls'[p].read = c.read + 1
              /\ c.pc = "abandoned" => calls'[p].read = c.read]_vars

\* the consumer stopped after the first chunk, delivered, while the
\* response still had a line
C23_StoppedWithLinesLeft ==
    \E p \in Procs :
        /\ calls[p].pc = "abandoned"
        /\ calls[p].read < Len(calls[p].script.lines)
        /\ Len(calls[p].chunks) = 1
        /\ Delivered(calls[p]) = 1
        /\ calls[p].at = "yielded"

\* what a line is by its own first characters, before any stripping
MarkedHeading(line) ==
    \/ startswith(line, <<"#", " ">>)
    \/ startswith(line, <<"#", "#", " ">>)
    \/ startswith(line, <<"#", "#", "#", " ">>)

MarkedItem(line) ==
    \/ startswith(line, <<"-", " ">>)
    \/ startswith(line, <<"*", " ">>)
    \/ re_match(line)

PlainLine(line) == strip(line) # <<>> /\ ~MarkedHeading(line) /\ ~MarkedItem(line)

BlocksOf(sections, type) == SelectSeq(sections, LAMBDA b : b.type = type)

RECURSIVE ItemCount(_)
ItemCount(sections) ==
    IF sections = <<>> THEN 0
    ELSE (IF Head(sections).type = "list" THEN Len(Head(sections).items) ELSE 0)
         + ItemCount(Tail(sections))

\* C24: the Paragraph blocks of a parsed text are, in order, its non-blank
\* lines that begin with no heading, bullet or ordinal marker, each with
\* its full text; and only lines that themselves begin with a marker
\* become headings or list items.
C24_ParagraphsKeepTheFullLine ==
    (applied.fn = "parse_generated_content" /\ applied.done)
    => LET lines == split(applied.content, <<>>)
           plain == SelectSeq(lines, PlainLine)
           paragraphs == BlocksOf(applied.sections, "paragraph")
       IN  /\ Len(paragraphs) = Len(plain)
           /\ \A i \in DOMAIN paragraphs : paragraphs[i].text = plain[i]
           /\ Len(BlocksOf(applied.sections, "heading")) = Len(SelectSeq(lines, MarkedHeading))
           /\ ItemCount(applied.sections) = Len(SelectSeq(lines, MarkedItem))

\* C25: when pdfplumber fails, at whatever page, extract_text_from_pdf
\* returns the non-empty page texts of PyPDF2 joined by a blank line, and
\* when PyPDF2 fails too it returns the error text with the reason (it
\* never raises).
C25_FallbackTextIsTheSecondReading ==
    (applied.fn = "extract_text_from_pdf" /\ applied.done /\ applied.plumber.fails_at # 0)
    => IF applied.pypdf.fails_at = 0
       THEN applied.text = join_parts(SelectSeq(applied.pypdf.pages, LAMBDA t : t # <<>>))
       ELSE applied.text = <<"Erreur lors de l'extraction du PDF: ", applied.pypdf.library>>

\* C26: an upload_document call whose bytes have the digest of a stored row
\* adds no row and leaves every row as it was (category, reference, title,
\* template flag, stored path, extracted text), whatever category and
\* metadata it was given; no file is added either.
C26_DuplicateUploadChangesNoRecord ==
    [][(last'.op = "upload_document" /\ ~last'.created /\ clock' = clock)
         => docs' = docs /\ files' = files]_vars

\* bytes stored as a template were uploaded again as a tender, and the
\* template's row was returned
C26_DuplicateOfOtherCategory ==
    /\ last.op = "upload_document"
    /\ ~last.created
    /\ last.content = PdfBytes
    /\ docs[last.id].document_type = OFFRE_PRIX
    /\ docs[last.id].is_template

C28_FilesAndRecordsCorrespond ==
    /\ \A i \in DOMAIN docs : docs[i].file_path \in DOMAIN files
    /\ \A i \in DOMAIN docs, j \in DOMAIN docs :
          i # j => docs[i].file_path # docs[j].file_path
    /\ \A path \in DOMAIN files : \E i \in DOMAIN docs : docs[i].file_path = path

\* C29: a row created by upload_document called with a title has that
\* title, and one created by a call with a reference has that reference:
\* the first line of the text, the file name and the reference found in
\* the text are used only when the caller gave none.
C29_TypedTitleAndReferenceAreStored ==
    (applied.fn = "upload_document" /\ applied.created /\ applied.id \in DOMAIN docs
     /\ last.op = "upload_document" /\ last.id = applied.id)
    => /\ Truthy(applied.title) => docs[applied.id].title = applied.title
       /\ Truthy(applied.reference) => docs[applied.id].reference = applied.reference

WellFormed(block) ==
    /\ block.type \in {"heading", "paragraph", "list"}
    /\ block.type = "heading" => block.level \in {1, 2, 3}
    /\ block.type = "list" => block.items # <<>>

\* a block was appended to sections in this step, of one of the types
Emitted(types) ==
    /\ Len(applied'.sections) > Len(applied.sections)
    /\ applied'.sections[Len(applied'.sections)].type \in types

\* C30: every block the parser emits is a heading of level 1, 2 or 3, a
\* paragraph, or a list with at least one item; current_list is empty
\* whenever a heading or a paragraph is emitted and when the parser returns.
C30_BlocksWellFormedAccumulatorEmpty ==
    /\ [](applied.fn = "parse_generated_content"
            => \A k \in DOMAIN applied.sections : WellFormed(applied.sections[k]))
    /\ [][(applied'.fn = "parse_generated_content" /\ applied' # applied)
            => /\ Emitted({"heading", "paragraph"}) => applied'.current_list = <<>>
               /\ applied'.done => applied'.current_list = <<>>]_vars

\* C30, amended: the blocks are well formed; current_list is empty whenever
\* a heading or a paragraph is emitted; and when the parser returns every
\* item of current_list has been emitted: current_list is empty or is the
\* items of the last block, a list.
C30_BlocksWellFormedNothingPending ==
    /\ [](applied.fn = "parse_generated_content"
            => \A k \in DOMAIN applied.sections : WellFormed(applied.sections[k]))
    /\ [][(applied'.fn = "parse_generated_content" /\ applied' # applied)
            => /\ Emitted({"heading", "paragraph"}) => applied'.current_list = <<>>
               /\ applied'.done
                     => \/ applied'.current_list = <<>>
                        \/ /\ applied'.sections # <<>>
                           /\ applied'.sections[Len(applied'.sections)]
                                 = ListBlock(applied'.current_list)
               /\ applied'.done
                     => applied'.sections = parse_generated_content(applied.content)]_vars

\* the parser has returned a text with a list flushed by a heading and a
\* list flushed behind the loop
C30_ReturnedAfterBothFlushes ==
    /\ applied.fn = "parse_generated_content"
    /\ applied.done
    /\ Len(applied.sections) = 3
    /\ applied.sections[1].type = "list"
    /\ applied.sections[2].type = "heading"
    /\ applied.sections[3].type = "list"

====
